---- MODULE Spec2Model ----
(***************************************************************************)
(* Model of the video summarizer: the caching pipeline of pipeline.py      *)
(* (run_pipeline and its five stage functions), driven by the worker       *)
(* thread of app.py (process_with_pipeline), over a shared uploads/ tree.  *)
(*                                                                         *)
(* Every upload starts one worker thread.  A worker is a program counter   *)
(* pc[t] walking through process_with_pipeline / run_pipeline; each action *)
(* is one step of that code that reads or writes the file system.  The     *)
(* external collaborators (ffmpeg, whisper, the Gemini model, the disk)    *)
(* either succeed or fail: that choice is nondeterministic.                *)
(***************************************************************************)
EXTENDS Integers, Sequences, FiniteSets, TLC

\* ---------------------------------------------------------------- bounds
NumTasks == 2
MaxEvents == 2
\* External failures (ffmpeg, whisper, the detector, the disk) per run.
MaxFaults == 1
\* Preemptions: a worker taking a step while the worker that stepped last
\* is still running (context-bounded interleaving).
MaxSwitches == 1

Tasks == 1..NumTasks
\* Distinct video contents; get_file_hash is injective on them.
Videos == {"h1", "h2"}

\* ---------------------------------------------------------------- events
\* An event as extract_events_with_llm builds it, reduced to its two
\* timestamps <<h, m, s>> (the fields create_clips_from_events computes on).
GoodEvent == [start_timestamp |-> <<0, 12, 3>>, end_timestamp |-> <<0, 12, 25>>]
BadEvent == [start_timestamp |-> <<0, 12, 25>>, end_timestamp |-> <<0, 12, 25>>]
EventKinds == {GoodEvent, BadEvent}
EventLists == UNION {[1..n -> EventKinds] : n \in 0..MaxEvents}

\* (hours counted as minutes)
time_to_seconds_h60(ts) == ts[1] * 60 + ts[2] * 60 + ts[3]

\* return h * 3600 + m * 60 + s
time_to_seconds(ts) == ts[1] * 3600 + ts[2] * 60 + ts[3]

Duration(ev) == time_to_seconds(ev.end_timestamp) - time_to_seconds(ev.start_timestamp)

\* ---------------------------------------------------------------- files
\* What a path holds: nothing, a zero-byte file (just opened with 'w'), a
\* truncated file (a write that stopped), or the complete content.
FileStates == {"absent", "empty", "partial", "ok"}

\* A directory under uploads/: every file name the pipeline uses in it.
EmptyDir ==
  [audio |-> "absent", txt |-> "absent", json |-> "absent",
   events |-> "absent", events_data |-> << >>,
   clips |-> [i \in 1..MaxEvents |-> "absent"],
   concat |-> "absent", summary |-> "absent"]

TaskDir(t) == <<"task", t>>
HashDir(h) == <<"cache", h>>
Dirs == {TaskDir(t) : t \in Tasks} \cup {HashDir(h) : h \in Videos}

VARIABLES
  gemini_api_key,  \* module global of pipeline.py: the credential is set
  fs,              \* the uploads/ tree: directory -> files
  status,          \* <task_dir>/status.json of every task
  video,           \* content of the video a task uploads
  pc,              \* where the worker of the task is
  loc,             \* local variables of the worker
  results,         \* what run_pipeline returned
  hist,            \* history of the run, for the properties only
  lastRun,         \* per video: the run that ended last (history)
  sched,           \* the worker that stepped last, and the preemptions so far
  response,        \* per task: what the last status poll answered
  llm,             \* extract_events_with_llm: the response text and `events`
  cut,             \* create_clips_from_events: its locals and the clips directory
  tc               \* a timecode taken through time_to_seconds and back

\* The pipeline and its workers.
main == <<gemini_api_key, fs, status, video, pc, loc, results, hist, lastRun, sched>>
\* The status poll, and single calls of the functions of pipeline.py.
unit == <<response, llm, cut, tc>>

vars == <<main, unit>>

\* os.path.exists
Exists(st) == st # "absent"

\* check_file_integrity(filepath): exists, non-zero size, and a .json parses.
check_file_integrity(st, isJson) ==
  IF ~Exists(st) THEN FALSE
  ELSE IF st = "empty" THEN FALSE
  ELSE IF isJson THEN st = "ok"
  ELSE TRUE

\* (one cache key for every video)
get_file_hash_fixed(t) == "h1"

\* get_file_hash: the cache key is a function of the video's bytes only.
get_file_hash(t) == video[t]

\* (a cache directory per task instead of per content)
CacheDirPerTask(t) == TaskDir(t)

\* cache_dir = os.path.join('uploads', 'cache', video_hash)
CacheDir(t) == HashDir(get_file_hash(t))

\* os.replace(src, dst) for the file `name` of two directories: a rename
\* onto itself changes nothing; otherwise dst gets the content, src is gone.
Replace(f, src, dst, name) ==
  IF src = dst THEN f
  ELSE [f EXCEPT ![dst][name] = f[src][name], ![src][name] = "absent"]

\* os.listdir(clips_dir): the positions whose clip file exists, in order.
RECURSIVE ListFrom(_, _)
ListFrom(clips, i) ==
  IF i > MaxEvents THEN << >>
  ELSE IF Exists(clips[i]) THEN <<i>> \o ListFrom(clips, i + 1)
  ELSE ListFrom(clips, i + 1)

ListClips(d) == ListFrom(fs[d].clips, 1)

\* ---------------------------------------------------------------- history
Stages == {"audio", "transcript", "events", "clips", "summary"}

NoHist ==
  [invoked |-> {},      \* stage functions the run has called
   failed |-> {},       \* stage functions that reported failure
   afterFail |-> {},    \* stage functions called after one had failed
   valid |-> {},        \* stages whose cache entry was valid at their check
   corrupt |-> {},      \* stages with a zero-byte or truncated file at their check
   hit |-> {},          \* stages the run treated as a cache hit
   fault |-> 0,         \* external failures met by this run
   zero |-> FALSE,      \* detection succeeded and yielded no valid clip
   solo |-> TRUE,       \* no other worker of the same video ran meanwhile
   prev |-> [results |-> [nothing |-> TRUE], solo |-> TRUE],
                        \* the run that finished last before this one began
   snap |-> EmptyDir]   \* the cache directory when the current stage began

NoLoc ==
  [events |-> << >>, cevents |-> << >>, i |-> 0,
   created |-> << >>, clips |-> << >>, exc |-> "none"]

Active(t) == pc[t] \notin {"idle", "done"}

\* The application has started, nothing is uploaded yet.  The credential is
\* read once at import.  Every upload will carry the same video content, so
\* that all tasks share one cache entry.
InitMain ==
  /\ gemini_api_key \in BOOLEAN
  /\ fs = [d \in Dirs |-> EmptyDir]
  /\ status = [t \in Tasks |-> [missing |-> TRUE]]
  /\ video = [t \in Tasks |-> "h1"]
  /\ pc = [t \in Tasks |-> "idle"]
  /\ loc = [t \in Tasks |-> NoLoc]
  /\ results = [t \in Tasks |-> [nothing |-> TRUE]]
  /\ hist = [t \in Tasks |-> NoHist]
  /\ lastRun = [v \in Videos |-> [results |-> [nothing |-> TRUE], solo |-> TRUE]]
  /\ sched = [cur |-> 0, switches |-> 0]

\* Nobody has polled; no function is being called on its own.
NoResponse == [none |-> TRUE]
NoCall == [idle |-> TRUE]

InitUnit ==
  /\ response = [t \in Tasks |-> NoResponse]
  /\ llm = NoCall
  /\ cut = NoCall
  /\ tc = NoCall

Init == InitMain /\ InitUnit

\* ---------------------------------------------------------------- helpers
\* The spec's notion of a valid cache entry of a stage (isValid on every
\* declared output), judged with check_file_integrity.
StageValid(d, stage) ==
  CASE stage = "audio" -> check_file_integrity(fs[d].audio, FALSE)
    [] stage = "transcript" ->
         /\ check_file_integrity(fs[d].txt, FALSE)
         /\ check_file_integrity(fs[d].json, TRUE)
    [] stage = "events" -> check_file_integrity(fs[d].events, TRUE)
    [] stage = "clips" ->
         /\ ListClips(d) # << >>
         /\ \A i \in 1..MaxEvents :
              Exists(fs[d].clips[i]) => check_file_integrity(fs[d].clips[i], FALSE)
    [] stage = "summary" -> check_file_integrity(fs[d].summary, FALSE)

\* A file that exists but is zero-byte or truncated.
Broken(st) == st \in {"empty", "partial"}

\* Some declared output of the stage is such a file.
StageCorrupt(d, stage) ==
  CASE stage = "audio" -> Broken(fs[d].audio)
    [] stage = "transcript" -> Broken(fs[d].txt) \/ Broken(fs[d].json)
    [] stage = "events" -> Broken(fs[d].events)
    [] stage = "clips" -> \E i \in 1..MaxEvents : Broken(fs[d].clips[i])
    [] stage = "summary" -> Broken(fs[d].summary)

\* History of a cache check: was the entry valid or corrupt, and did the
\* code take it for a hit; the directory is remembered as the stage begins.
Checked(t, stage, isHit) ==
  [hist EXCEPT ![t].valid = IF StageValid(HashDir(video[t]), stage)
                            THEN @ \cup {stage} ELSE @,
               ![t].corrupt = IF StageCorrupt(HashDir(video[t]), stage)
                              THEN @ \cup {stage} ELSE @,
               ![t].hit = IF isHit THEN @ \cup {stage} ELSE @,
               ![t].snap = IF hist[t].solo THEN fs[HashDir(video[t])] ELSE EmptyDir]

\* A path is <<directory, file name>>; None is the empty tuple.  Python's
\* truth value of a path: os.path.join never yields the empty string.
None == << >>
Truthy(path) == path # None

\* No status.json yet / nothing returned yet.
NoFile == [missing |-> TRUE]
NoResults == [nothing |-> TRUE]

Invoked(h, fn) ==
  [h EXCEPT !.invoked = @ \cup {fn},
            !.afterFail = IF h.failed # {} THEN @ \cup {fn} ELSE @]

Failed(h, fn) == [h EXCEPT !.failed = @ \cup {fn}]

Faulted(h) == [h EXCEPT !.fault = @ + 1]

\* The run may meet one more external failure.
CanFault(t) == hist[t].fault < MaxFaults

\* update_status(task_dir, status, summary_path=None): the content written
\* to status.json; a path is <<directory, file name>>.
update_status(text, summary_path) ==
  IF Truthy(summary_path)
  THEN [status |-> text, summary_filename |-> summary_path[2]]
  ELSE [status |-> text]

\* The worker of t takes the step: a preemption if the worker that stepped
\* last is another one that is still running.
Sched(t) ==
  IF sched.cur \notin {0, t} /\ Active(sched.cur)
  THEN /\ sched.switches < MaxSwitches
       /\ sched' = [cur |-> t, switches |-> sched.switches + 1]
  ELSE sched' = [sched EXCEPT !.cur = t]

\* ---------------------------------------------------------------- upload
\* upload_file: a fresh task id, the video saved in the task directory, a
\* worker thread started on process_with_pipeline.  Task ids are taken in
\* order (they are interchangeable).
Upload(t) ==
  /\ pc[t] = "idle"
  /\ \A u \in Tasks : u < t => pc[u] # "idle"
  /\ pc' = [pc EXCEPT ![t] = "p_start"]
  /\ LET others == {u \in Tasks : u # t /\ Active(u) /\ video[u] = video[t]}
     IN hist' = [u \in Tasks |->
                  IF u = t
                  THEN [NoHist EXCEPT !.solo = (others = {}),
                                      !.prev = IF others = {} THEN lastRun[video[t]]
                                               ELSE [results |-> NoResults, solo |-> FALSE]]
                  ELSE IF u \in others
                  THEN [hist[u] EXCEPT !.solo = FALSE, !.snap = EmptyDir]
                  ELSE hist[u]]
  /\ UNCHANGED <<unit, gemini_api_key, fs, status, video, loc, results, lastRun, sched>>

\* process_with_pipeline up to the call, and run_pipeline up to stage 1:
\* the first status, the hash of the video, the cache directory.
Start(t) ==
  /\ pc[t] = "p_start"
  /\ Sched(t)
  /\ status' = [status EXCEPT ![t] = update_status("Checking for cached results...", None)]
  /\ pc' = [pc EXCEPT ![t] = "s1_check"]
  /\ UNCHANGED <<unit, gemini_api_key, fs, video, loc, results, hist, lastRun>>

\* ---------------------------------------------------------------- stage 1
\* if not os.path.exists(audio_path)
Stage1Check(t) ==
  /\ pc[t] = "s1_check"
  /\ Sched(t)
  /\ LET isHit == Exists(fs[CacheDir(t)].audio)
     IN /\ hist' = Checked(t, "audio", isHit)
        /\ pc' = [pc EXCEPT ![t] = IF isHit THEN "s2_check" ELSE "s1_run"]
  /\ UNCHANGED <<unit, gemini_api_key, fs, status, video, loc, results, lastRun>>

\* extract_audio(video_path, task_id): ffmpeg writes <task_dir>/audio.wav;
\* on any error the function returns None (ffmpeg may leave a stub behind).
ExtractAudio(t) ==
  /\ pc[t] = "s1_run"
  /\ Sched(t)
  /\ \/ /\ fs' = [fs EXCEPT ![TaskDir(t)].audio = "ok"]
        /\ hist' = [hist EXCEPT ![t] = Invoked(@, "extract_audio")]
        /\ pc' = [pc EXCEPT ![t] = "s1_replace"]
     \/ /\ CanFault(t)
        /\ \E left \in {"absent", "partial"} :
             fs' = [fs EXCEPT ![TaskDir(t)].audio = left]
        /\ hist' = [hist EXCEPT ![t] =
                      Faulted(Failed(Invoked(@, "extract_audio"), "extract_audio"))]
        /\ pc' = [pc EXCEPT ![t] = "s2_check"]
  /\ UNCHANGED <<unit, gemini_api_key, status, video, loc, results, lastRun>>

\* if extracted_audio: os.replace(extracted_audio, audio_path)
Stage1Replace(t) ==
  /\ pc[t] = "s1_replace"
  /\ Sched(t)
  /\ fs' = Replace(fs, TaskDir(t), CacheDir(t), "audio")
  /\ pc' = [pc EXCEPT ![t] = "s2_check"]
  /\ UNCHANGED <<unit, gemini_api_key, status, video, loc, results, hist, lastRun>>

\* ---------------------------------------------------------------- stage 2
\* if not (os.path.exists(txt_path) and os.path.exists(json_path))
Stage2Check(t) ==
  /\ pc[t] = "s2_check"
  /\ Sched(t)
  /\ LET d == CacheDir(t)
         isHit == Exists(fs[d].txt) /\ Exists(fs[d].json)
     IN /\ hist' = Checked(t, "transcript", isHit)
        /\ pc' = [pc EXCEPT ![t] = IF isHit THEN "s3_check" ELSE "s2_model"]
  /\ UNCHANGED <<unit, gemini_api_key, fs, status, video, loc, results, lastRun>>

\* transcribe_audio(audio_path, task_id) writes beside the audio file:
\* task_dir = os.path.dirname(audio_path), and audio_path is the cache's.
TranscribeDir(t) == CacheDir(t)

\* transcribe_audio, the model: whisper loads and transcribes the audio;
\* a missing or broken audio file raises, and whisper itself may fail.
TranscribeModel(t) ==
  /\ pc[t] = "s2_model"
  /\ Sched(t)
  /\ \/ /\ fs[CacheDir(t)].audio = "ok"
        /\ hist' = [hist EXCEPT ![t] = Invoked(@, "transcribe_audio")]
        /\ pc' = [pc EXCEPT ![t] = "s2_open_txt"]
     \/ /\ fs[CacheDir(t)].audio # "ok" \/ CanFault(t)
        /\ hist' = [hist EXCEPT ![t] =
                      IF fs[CacheDir(t)].audio = "ok"
                      THEN Faulted(Failed(Invoked(@, "transcribe_audio"), "transcribe_audio"))
                      ELSE Failed(Invoked(@, "transcribe_audio"), "transcribe_audio")]
        /\ pc' = [pc EXCEPT ![t] = "s3_check"]
  /\ UNCHANGED <<unit, gemini_api_key, fs, status, video, loc, results, lastRun>>

\* with open(txt_path, 'w'): the file exists, zero bytes long
TranscribeOpenTxt(t) ==
  /\ pc[t] = "s2_open_txt"
  /\ Sched(t)
  /\ fs' = [fs EXCEPT ![TranscribeDir(t)].txt = "empty"]
  /\ pc' = [pc EXCEPT ![t] = "s2_write_txt"]
  /\ UNCHANGED <<unit, gemini_api_key, status, video, loc, results, hist, lastRun>>

\* f.write(result["text"]): written, or the write raises and
\* transcribe_audio returns (None, None)
TranscribeWriteTxt(t) ==
  /\ pc[t] = "s2_write_txt"
  /\ Sched(t)
  /\ \/ /\ fs' = [fs EXCEPT ![TranscribeDir(t)].txt = "ok"]
        /\ pc' = [pc EXCEPT ![t] = "s2_open_json"]
        /\ hist' = hist
     \/ /\ CanFault(t)
        /\ \E left \in {"empty", "partial"} :
             fs' = [fs EXCEPT ![TranscribeDir(t)].txt = left]
        /\ hist' = [hist EXCEPT ![t] = Faulted(Failed(@, "transcribe_audio"))]
        /\ pc' = [pc EXCEPT ![t] = "s3_check"]
  /\ UNCHANGED <<unit, gemini_api_key, status, video, loc, results, lastRun>>

\* with open(json_path, 'w')
TranscribeOpenJson(t) ==
  /\ pc[t] = "s2_open_json"
  /\ Sched(t)
  /\ fs' = [fs EXCEPT ![TranscribeDir(t)].json = "empty"]
  /\ pc' = [pc EXCEPT ![t] = "s2_write_json"]
  /\ UNCHANGED <<unit, gemini_api_key, status, video, loc, results, hist, lastRun>>

\* json.dump(result["segments"], f): written, or it raises
TranscribeWriteJson(t) ==
  /\ pc[t] = "s2_write_json"
  /\ Sched(t)
  /\ \/ /\ fs' = [fs EXCEPT ![TranscribeDir(t)].json = "ok"]
        /\ pc' = [pc EXCEPT ![t] = "s2_replace"]
        /\ hist' = hist
     \/ /\ CanFault(t)
        /\ \E left \in {"empty", "partial"} :
             fs' = [fs EXCEPT ![TranscribeDir(t)].json = left]
        /\ hist' = [hist EXCEPT ![t] = Faulted(Failed(@, "transcribe_audio"))]
        /\ pc' = [pc EXCEPT ![t] = "s3_check"]
  /\ UNCHANGED <<unit, gemini_api_key, status, video, loc, results, lastRun>>

\* if t_path and j_path: os.replace(t_path, txt_path); os.replace(j_path, json_path)
Stage2Replace(t) ==
  /\ pc[t] = "s2_replace"
  /\ Sched(t)
  /\ fs' = Replace(Replace(fs, TranscribeDir(t), CacheDir(t), "txt"),
                   TranscribeDir(t), CacheDir(t), "json")
  /\ pc' = [pc EXCEPT ![t] = "s3_check"]
  /\ UNCHANGED <<unit, gemini_api_key, status, video, loc, results, hist, lastRun>>

\* ---------------------------------------------------------------- stage 3
\* if not os.path.exists(events_path)
Stage3Check(t) ==
  /\ pc[t] = "s3_check"
  /\ Sched(t)
  /\ LET isHit == Exists(fs[CacheDir(t)].events)
     IN /\ hist' = Checked(t, "events", isHit)
        /\ pc' = [pc EXCEPT ![t] = IF isHit THEN "s3_read" ELSE "s3_detect"]
  /\ UNCHANGED <<unit, gemini_api_key, fs, status, video, loc, results, lastRun>>

\* format_transcript_with_timestamps(json_path): None when transcript.json
\* cannot be read or parsed, the formatted text otherwise.
format_transcript_with_timestamps(st) == IF st = "ok" THEN "formatted" ELSE "None"

\* formatted_transcript = format_transcript_with_timestamps(json_path)
\* events = extract_events_with_llm(formatted_transcript, task_id)
\* Without the credential the function returns None at once; otherwise the
\* prompt is sent whatever formatted_transcript is (None is formatted into
\* it), and the call raises (None) or the response parses to a list.
ExtractEvents(t) ==
  /\ pc[t] = "s3_detect"
  /\ Sched(t)
  /\ LET h == Invoked(Invoked(hist[t], "format_transcript_with_timestamps"),
                      "extract_events_with_llm")
     IN \/ /\ ~gemini_api_key
           /\ hist' = [hist EXCEPT ![t] = Failed(h, "extract_events_with_llm")]
           /\ pc' = [pc EXCEPT ![t] = "s3_read"]
           /\ loc' = loc
        \/ /\ gemini_api_key
           /\ CanFault(t)
           /\ hist' = [hist EXCEPT ![t] = Faulted(Failed(h, "extract_events_with_llm"))]
           /\ pc' = [pc EXCEPT ![t] = "s3_read"]
           /\ loc' = loc
        \/ /\ gemini_api_key
           /\ \E events \in EventLists :
                /\ loc' = [loc EXCEPT ![t].events = events]
                /\ hist' = [hist EXCEPT ![t] = [h EXCEPT !.zero = (events = << >>)]]
                /\ pc' = [pc EXCEPT ![t] = IF events # << >> THEN "s3_open" ELSE "s3_read"]
  /\ UNCHANGED <<unit, gemini_api_key, fs, status, video, results, lastRun>>

\* if events: with open(events_path, 'w') ...
EventsOpen(t) ==
  /\ pc[t] = "s3_open"
  /\ Sched(t)
  /\ fs' = [fs EXCEPT ![CacheDir(t)].events = "empty",
                      ![CacheDir(t)].events_data = << >>]
  /\ pc' = [pc EXCEPT ![t] = "s3_dump"]
  /\ UNCHANGED <<unit, gemini_api_key, status, video, loc, results, hist, lastRun>>

\* json.dump(events, f): written, or the write raises out of run_pipeline
EventsDump(t) ==
  /\ pc[t] = "s3_dump"
  /\ Sched(t)
  /\ \/ /\ fs' = [fs EXCEPT ![CacheDir(t)].events = "ok",
                            ![CacheDir(t)].events_data = loc[t].events]
        /\ pc' = [pc EXCEPT ![t] = "s3_read"]
        /\ UNCHANGED <<loc, hist>>
     \/ /\ CanFault(t)
        /\ \E left \in {"empty", "partial"} :
             fs' = [fs EXCEPT ![CacheDir(t)].events = left]
        /\ hist' = [hist EXCEPT ![t] = Faulted(@)]
        /\ loc' = [loc EXCEPT ![t].exc = "OSError"]
        /\ pc' = [pc EXCEPT ![t] = "p_except"]
  /\ UNCHANGED <<unit, gemini_api_key, status, video, results, lastRun>>

\* with open(events_path, 'r') as f: events = json.load(f)
\* (not guarded: a missing file or a file that does not parse raises)
Stage3Read(t) ==
  /\ pc[t] = "s3_read"
  /\ Sched(t)
  /\ LET st == fs[CacheDir(t)].events
     IN IF st = "ok"
        THEN /\ loc' = [loc EXCEPT ![t].events = fs[CacheDir(t)].events_data]
             /\ pc' = [pc EXCEPT ![t] = "s4_check"]
        ELSE /\ loc' = [loc EXCEPT ![t].exc = IF st = "absent" THEN "FileNotFoundError"
                                              ELSE "JSONDecodeError"]
             /\ pc' = [pc EXCEPT ![t] = "p_except"]
  /\ UNCHANGED <<unit, gemini_api_key, fs, status, video, results, hist, lastRun>>

\* ---------------------------------------------------------------- stage 4
\* clips_dir = os.path.join(cache_dir, 'clips'); if not os.listdir(clips_dir)
Stage4Check(t) ==
  /\ pc[t] = "s4_check"
  /\ Sched(t)
  /\ LET isHit == ListClips(CacheDir(t)) # << >>
     IN /\ hist' = Checked(t, "clips", isHit)
        /\ pc' = [pc EXCEPT ![t] = IF isHit THEN "s4_list" ELSE "s4_load"]
  /\ UNCHANGED <<unit, gemini_api_key, fs, status, video, loc, results, lastRun>>

\* create_clips_from_events writes into
\* os.path.join(os.path.dirname(events_path), "clips"): the cache's clips.
CreateClipsDir(t) == CacheDir(t)

\* create_clips_from_events, up to the loop: events.json is read again; a
\* missing or unparseable file, or any other error, returns None; an empty
\* list returns [].
CreateClipsLoad(t) ==
  /\ pc[t] = "s4_load"
  /\ Sched(t)
  /\ LET h == Invoked(hist[t], "create_clips_from_events")
         d == CacheDir(t)
     IN \/ IF fs[d].events # "ok"
           THEN /\ loc' = loc
                /\ hist' = [hist EXCEPT ![t] = Failed(h, "create_clips_from_events")]
                /\ pc' = [pc EXCEPT ![t] = "s4_list"]
           ELSE IF fs[d].events_data = << >>
           THEN /\ loc' = [loc EXCEPT ![t].created = << >>]
                /\ hist' = [hist EXCEPT ![t] = [h EXCEPT !.zero = TRUE]]
                /\ pc' = [pc EXCEPT ![t] = "s4_list"]
           ELSE /\ loc' = [loc EXCEPT ![t].cevents = fs[d].events_data,
                                      ![t].i = 1, ![t].created = << >>]
                /\ hist' = [hist EXCEPT ![t] = h]
                /\ pc' = [pc EXCEPT ![t] = "s4_clip"]
        \/ /\ CanFault(t)
           /\ loc' = loc
           /\ hist' = [hist EXCEPT ![t] = Faulted(Failed(h, "create_clips_from_events"))]
           /\ pc' = [pc EXCEPT ![t] = "s4_list"]
  /\ UNCHANGED <<unit, gemini_api_key, fs, status, video, results, lastRun>>

\* One iteration of `for i, event in enumerate(events)` (loc.i is i+1): an
\* event of duration <= 0 is skipped; otherwise ffmpeg cuts the clip into
\* the clips directory, and a failed cut (which may leave a stub) is logged
\* and the loop goes on.
CreateClip(t) ==
  /\ pc[t] = "s4_clip"
  /\ Sched(t)
  /\ loc[t].i <= Len(loc[t].cevents)
  /\ LET i == loc[t].i
         d == CreateClipsDir(t)
     IN \/ /\ Duration(loc[t].cevents[i]) <= 0
           /\ loc' = [loc EXCEPT ![t].i = i + 1]
           /\ UNCHANGED <<fs, hist>>
        \/ /\ Duration(loc[t].cevents[i]) > 0
           /\ fs' = [fs EXCEPT ![d].clips[i] = "ok"]
           /\ loc' = [loc EXCEPT ![t].i = i + 1, ![t].created = Append(@, i)]
           /\ hist' = hist
        \/ /\ Duration(loc[t].cevents[i]) > 0
           /\ CanFault(t)
           /\ \E left \in {fs[d].clips[i], "partial"} :
                fs' = [fs EXCEPT ![d].clips[i] = left]
           /\ loc' = [loc EXCEPT ![t].i = i + 1]
           /\ hist' = [hist EXCEPT ![t] = Faulted(@)]
  /\ UNCHANGED <<unit, gemini_api_key, status, video, pc, results, lastRun>>

\* for clip in new_clips: os.replace(clip, os.path.join(clips_dir, basename))
ReplaceClips(f, src, dst, created) ==
  IF src = dst THEN f
  ELSE [f EXCEPT
          ![dst].clips = [i \in 1..MaxEvents |->
             IF \E k \in 1..Len(created) : created[k] = i THEN f[src].clips[i] ELSE @[i]],
          ![src].clips = [i \in 1..MaxEvents |->
             IF \E k \in 1..Len(created) : created[k] = i THEN "absent" ELSE @[i]]]

\* create_clips_from_events returns created_clips, and run_pipeline moves
\* each returned clip into clips_dir.
CreateClipsReturn(t) ==
  /\ pc[t] = "s4_clip"
  /\ Sched(t)
  /\ loc[t].i > Len(loc[t].cevents)
  /\ fs' = ReplaceClips(fs, CreateClipsDir(t), CacheDir(t), loc[t].created)
  /\ hist' = [hist EXCEPT ![t].zero =
                \A k \in 1..Len(loc[t].cevents) : Duration(loc[t].cevents[k]) <= 0]
  /\ loc' = [loc EXCEPT ![t].cevents = << >>, ![t].i = 0]
  /\ pc' = [pc EXCEPT ![t] = "s4_list"]
  /\ UNCHANGED <<unit, gemini_api_key, status, video, results, lastRun>>

\* clips = [... for f in sorted(os.listdir(clips_dir)) if f.endswith('.mp4')]
\* (fewer than ten clips here: the sorted names are in position order)
Stage4List(t) ==
  /\ pc[t] = "s4_list"
  /\ Sched(t)
  /\ loc' = [loc EXCEPT ![t].clips = ListClips(CacheDir(t)), ![t].created = << >>]
  /\ pc' = [pc EXCEPT ![t] = "s5_check"]
  /\ UNCHANGED <<unit, gemini_api_key, fs, status, video, results, hist, lastRun>>

\* ---------------------------------------------------------------- stage 5
\* summary_path = os.path.join(cache_dir, 'summary.mp4')
\* if not os.path.exists(summary_path)
Stage5Check(t) ==
  /\ pc[t] = "s5_check"
  /\ Sched(t)
  /\ LET isHit == Exists(fs[CacheDir(t)].summary)
     IN /\ hist' = Checked(t, "summary", isHit)
        /\ pc' = [pc EXCEPT ![t] = IF isHit THEN "s5_return" ELSE "s5_stitch"]
  /\ UNCHANGED <<unit, gemini_api_key, fs, status, video, loc, results, lastRun>>

\* stitch_clips works in os.path.dirname(os.path.dirname(clip_paths[0])):
\* the directory above the cache's clips directory, the cache directory.
StitchDir(t) == CacheDir(t)

\* stitch_clips, up to ffmpeg: an empty list returns None; otherwise
\* concat_list.txt is written (an error there removes it and returns None).
StitchStart(t) ==
  /\ pc[t] = "s5_stitch"
  /\ Sched(t)
  /\ LET h == Invoked(hist[t], "stitch_clips")
     IN \/ IF loc[t].clips = << >>
           THEN /\ fs' = fs
                /\ hist' = [hist EXCEPT ![t] = h]
                /\ pc' = [pc EXCEPT ![t] = "s5_return"]
           ELSE /\ fs' = [fs EXCEPT ![StitchDir(t)].concat = "ok"]
                /\ hist' = [hist EXCEPT ![t] = h]
                /\ pc' = [pc EXCEPT ![t] = "s5_ffmpeg"]
        \/ /\ loc[t].clips # << >>
           /\ CanFault(t)
           /\ fs' = [fs EXCEPT ![StitchDir(t)].concat = "absent"]
           /\ hist' = [hist EXCEPT ![t] = Faulted(Failed(h, "stitch_clips"))]
           /\ pc' = [pc EXCEPT ![t] = "s5_return"]
  /\ UNCHANGED <<unit, gemini_api_key, status, video, loc, results, lastRun>>

\* ffmpeg can read what stitch_clips hands it: the concat list and every
\* clip it names.
StitchInputsOk(t) ==
  /\ fs[StitchDir(t)].concat = "ok"
  /\ \A k \in 1..Len(loc[t].clips) : fs[StitchDir(t)].clips[loc[t].clips[k]] = "ok"

\* ffmpeg.run(... summary_path ...): the summary is written in place; on
\* ffmpeg.Error stitch_clips returns None, the concat list stays, and a
\* stub of the summary may stay.
StitchRun(t) ==
  /\ pc[t] = "s5_ffmpeg"
  /\ Sched(t)
  /\ \/ /\ StitchInputsOk(t)
        /\ fs' = [fs EXCEPT ![StitchDir(t)].summary = "ok"]
        /\ hist' = hist
        /\ pc' = [pc EXCEPT ![t] = "s5_cleanup"]
     \/ /\ ~StitchInputsOk(t) \/ CanFault(t)
        /\ \E left \in {fs[StitchDir(t)].summary, "partial"} :
             fs' = [fs EXCEPT ![StitchDir(t)].summary = left]
        /\ hist' = [hist EXCEPT ![t] =
                      IF StitchInputsOk(t) THEN Faulted(Failed(@, "stitch_clips"))
                      ELSE Failed(@, "stitch_clips")]
        /\ pc' = [pc EXCEPT ![t] = "s5_return"]
  /\ UNCHANGED <<unit, gemini_api_key, status, video, loc, results, lastRun>>

\* os.remove(concat_list_path) (an OSError is ignored); return summary_path;
\* then in run_pipeline: os.replace(new_summary, summary_path)
StitchCleanup(t) ==
  /\ pc[t] = "s5_cleanup"
  /\ Sched(t)
  /\ fs' = Replace([fs EXCEPT ![StitchDir(t)].concat = "absent"],
                   StitchDir(t), CacheDir(t), "summary")
  /\ pc' = [pc EXCEPT ![t] = "s5_return"]
  /\ UNCHANGED <<unit, gemini_api_key, status, video, loc, results, hist, lastRun>>

\* ---------------------------------------------------------------- the end
ClipPath(d, i) == <<d, "clips", i>>

\* The dictionary run_pipeline returns: every path is built from cache_dir.
Results(t) ==
  [audio_path |-> <<CacheDir(t), "audio.wav">>,
   txt_path |-> <<CacheDir(t), "transcript.txt">>,
   json_path |-> <<CacheDir(t), "transcript.json">>,
   events |-> loc[t].events,
   clips |-> [k \in 1..Len(loc[t].clips) |-> ClipPath(CacheDir(t), loc[t].clips[k])],
   summary_path |-> <<CacheDir(t), "summary.mp4">>]

\* return results; then in process_with_pipeline:
\* if not results.get('summary_path'): "Error: ..." else "Complete"
Return(t) ==
  /\ pc[t] = "s5_return"
  /\ Sched(t)
  /\ results' = [results EXCEPT ![t] = Results(t)]
  /\ status' = [status EXCEPT ![t] =
        IF ~Truthy(Results(t).summary_path)
        THEN update_status("Error: Pipeline failed to produce summary video.", None)
        ELSE update_status("Complete", Results(t).summary_path)]
  /\ lastRun' = [lastRun EXCEPT ![video[t]] =
        [results |-> Results(t), solo |-> hist[t].solo]]
  /\ loc' = [loc EXCEPT ![t] = NoLoc]
  /\ pc' = [pc EXCEPT ![t] = "done"]
  /\ UNCHANGED <<unit, gemini_api_key, fs, video, hist>>

\* (the exception ends the thread and no status is written)
ExceptUncaught(t) ==
  /\ pc[t] = "p_except"
  /\ Sched(t)
  /\ lastRun' = [lastRun EXCEPT ![video[t]] =
        [results |-> NoResults, solo |-> hist[t].solo]]
  /\ loc' = [loc EXCEPT ![t] = NoLoc]
  /\ pc' = [pc EXCEPT ![t] = "done"]
  /\ UNCHANGED <<unit, gemini_api_key, fs, status, video, results, hist>>

\* except Exception as e: update_status(task_dir, f"Error: {str(e)}")
Except(t) ==
  /\ pc[t] = "p_except"
  /\ Sched(t)
  /\ status' = [status EXCEPT ![t] = update_status("Error: " \o loc[t].exc, None)]
  /\ lastRun' = [lastRun EXCEPT ![video[t]] =
        [results |-> NoResults, solo |-> hist[t].solo]]
  /\ loc' = [loc EXCEPT ![t] = NoLoc]
  /\ pc' = [pc EXCEPT ![t] = "done"]
  /\ UNCHANGED <<unit, gemini_api_key, fs, video, results, hist>>

\* ---------------------------------------------------------------- system
Next ==
  \E t \in Tasks :
    \/ Upload(t)
    \/ Start(t)
    \/ Stage1Check(t) \/ ExtractAudio(t) \/ Stage1Replace(t)
    \/ Stage2Check(t) \/ TranscribeModel(t)
    \/ TranscribeOpenTxt(t) \/ TranscribeWriteTxt(t)
    \/ TranscribeOpenJson(t) \/ TranscribeWriteJson(t) \/ Stage2Replace(t)
    \/ Stage3Check(t) \/ ExtractEvents(t) \/ EventsOpen(t) \/ EventsDump(t)
    \/ Stage3Read(t)
    \/ Stage4Check(t) \/ CreateClipsLoad(t) \/ CreateClip(t)
    \/ CreateClipsReturn(t) \/ Stage4List(t)
    \/ Stage5Check(t) \/ StitchStart(t) \/ StitchRun(t) \/ StitchCleanup(t)
    \/ Return(t) \/ Except(t)

Spec == Init /\ [][Next]_vars

\* A step of the worker thread of task t.
Worker(t) ==
  \/ Start(t)
  \/ Stage1Check(t) \/ ExtractAudio(t) \/ Stage1Replace(t)
  \/ Stage2Check(t) \/ TranscribeModel(t)
  \/ TranscribeOpenTxt(t) \/ TranscribeWriteTxt(t)
  \/ TranscribeOpenJson(t) \/ TranscribeWriteJson(t) \/ Stage2Replace(t)
  \/ Stage3Check(t) \/ ExtractEvents(t) \/ EventsOpen(t) \/ EventsDump(t)
  \/ Stage3Read(t)
  \/ Stage4Check(t) \/ CreateClipsLoad(t) \/ CreateClip(t)
  \/ CreateClipsReturn(t) \/ Stage4List(t)
  \/ Stage5Check(t) \/ StitchStart(t) \/ StitchRun(t) \/ StitchCleanup(t)
  \/ Return(t) \/ Except(t)

\* Every started thread keeps being scheduled, and every external call
\* (transcoder, transcriber, detector) returns or raises: a worker that can
\* take a step eventually takes one.
FairSpec == Spec /\ \A t \in Tasks : WF_vars(Worker(t))

\* Uploads of different videos: the tasks carry the two contents in turn,
\* so that workers with different cache keys run side by side.
VideoOf(t) == IF t % 2 = 1 THEN "h1" ELSE "h2"

FrameInit ==
  /\ gemini_api_key \in BOOLEAN
  /\ fs = [d \in Dirs |-> EmptyDir]
  /\ status = [t \in Tasks |-> NoFile]
  /\ video = [t \in Tasks |-> VideoOf(t)]
  /\ pc = [t \in Tasks |-> "idle"]
  /\ loc = [t \in Tasks |-> NoLoc]
  /\ results = [t \in Tasks |-> NoResults]
  /\ hist = [t \in Tasks |-> NoHist]
  /\ lastRun = [v \in Videos |-> [results |-> NoResults, solo |-> TRUE]]
  /\ sched = [cur |-> 0, switches |-> 0]
  /\ InitUnit

FrameSpec == FrameInit /\ [][Next]_vars

\* ================================================ non-caching orchestrator
\* run_pipeline of templates/app.py: no cache, every file in the task's own
\* directory, a status written before each stage function, and a return
\* after the first failure.

\* The six stage functions in the order of the calls, the status written
\* before each, and the status written when it reports failure.
TplStageFns ==
  <<"extract_audio", "transcribe_audio", "format_transcript_with_timestamps",
    "extract_events_with_llm", "create_clips_from_events", "stitch_clips">>

TplStatusTexts ==
  <<"Extracting audio...", "Transcribing audio (using 'small' model)...",
    "Formatting transcript for analysis...", "Identifying key events with AI...",
    "Creating highlight clips...", "Stitching final summary...">>

TplErrorTexts ==
  <<"Error: Audio extraction failed.", "Error: Transcription failed.",
    "Error: Failed to format transcript.", "Error: AI event extraction failed.",
    "Error: Clip creation failed.", "Error: Video stitching failed.">>

TplNoEventsText == "Complete: No highlight events were found to create a summary."

\* Where the worker is: about to write the status of stage k, or about to
\* call its stage function.
TplStatusPc == <<"t1_status", "t2_status", "t3_status", "t4_status", "t5_status", "t6_status">>
TplRunPc == <<"t1_run", "t2_run", "t3_run", "t4_run", "t5_run", "t6_run">>

TplStageCount == Len(TplStageFns)

\* upload_file of templates/app.py: the worker thread runs run_pipeline.
TplUpload(t) ==
  /\ pc[t] = "idle"
  /\ \A u \in Tasks : u < t => pc[u] # "idle"
  /\ pc' = [pc EXCEPT ![t] = TplStatusPc[1]]
  /\ UNCHANGED <<unit, gemini_api_key, fs, status, video, loc, results, hist, lastRun, sched>>

\* update_status(task_dir, "<stage> ...") before the stage function
TplStatus(t) ==
  /\ Sched(t)
  /\ \E k \in 1..TplStageCount :
       /\ pc[t] = TplStatusPc[k]
       /\ status' = [status EXCEPT ![t] = update_status(TplStatusTexts[k], None)]
       /\ pc' = [pc EXCEPT ![t] = TplRunPc[k]]
  /\ UNCHANGED <<unit, gemini_api_key, fs, video, loc, results, hist, lastRun>>

\* (the return after the error status forgotten: the run goes on)
TplFailedGoesOn(t, k) ==
  /\ status' = [status EXCEPT ![t] = update_status(TplErrorTexts[k], None)]
  /\ pc' = [pc EXCEPT ![t] = IF k < TplStageCount THEN TplStatusPc[k + 1] ELSE "t_done"]

\* update_status(task_dir, "Error: ..."); return
TplFailed(t, k) ==
  /\ status' = [status EXCEPT ![t] = update_status(TplErrorTexts[k], None)]
  /\ pc' = [pc EXCEPT ![t] = "t_done"]

\* audio_path = extract_audio(video_path, task_id)
TplExtractAudio(t) ==
  /\ pc[t] = TplRunPc[1]
  /\ Sched(t)
  /\ \/ /\ fs' = [fs EXCEPT ![TaskDir(t)].audio = "ok"]
        /\ hist' = [hist EXCEPT ![t] = Invoked(@, TplStageFns[1])]
        /\ pc' = [pc EXCEPT ![t] = TplStatusPc[2]]
        /\ status' = status
     \/ /\ CanFault(t)
        /\ \E left \in {"absent", "partial"} :
             fs' = [fs EXCEPT ![TaskDir(t)].audio = left]
        /\ hist' = [hist EXCEPT ![t] = Faulted(Failed(Invoked(@, TplStageFns[1]), TplStageFns[1]))]
        /\ TplFailed(t, 1)
  /\ UNCHANGED <<unit, gemini_api_key, video, loc, results, lastRun>>

\* _, json_path = transcribe_audio(audio_path, task_id): both transcript
\* files beside the audio, or (None, None) with what was written so far.
TplTranscribe(t) ==
  /\ pc[t] = TplRunPc[2]
  /\ Sched(t)
  /\ \/ /\ fs' = [fs EXCEPT ![TaskDir(t)].txt = "ok", ![TaskDir(t)].json = "ok"]
        /\ hist' = [hist EXCEPT ![t] = Invoked(@, TplStageFns[2])]
        /\ pc' = [pc EXCEPT ![t] = TplStatusPc[3]]
        /\ status' = status
     \/ /\ CanFault(t)
        /\ \E left \in {<<"absent", "absent">>, <<"partial", "absent">>, <<"ok", "partial">>} :
             fs' = [fs EXCEPT ![TaskDir(t)].txt = left[1], ![TaskDir(t)].json = left[2]]
        /\ hist' = [hist EXCEPT ![t] = Faulted(Failed(Invoked(@, TplStageFns[2]), TplStageFns[2]))]
        /\ TplFailed(t, 2)
  /\ UNCHANGED <<unit, gemini_api_key, video, loc, results, lastRun>>

\* formatted_transcript = format_transcript_with_timestamps(json_path):
\* the text, or None / the empty string (no segment, or a read that fails)
TplFormat(t) ==
  /\ pc[t] = TplRunPc[3]
  /\ Sched(t)
  /\ \/ /\ format_transcript_with_timestamps(fs[TaskDir(t)].json) = "formatted"
        /\ hist' = [hist EXCEPT ![t] = Invoked(@, TplStageFns[3])]
        /\ pc' = [pc EXCEPT ![t] = TplStatusPc[4]]
        /\ status' = status
     \/ /\ CanFault(t)
        /\ hist' = [hist EXCEPT ![t] = Faulted(Failed(Invoked(@, TplStageFns[3]), TplStageFns[3]))]
        /\ TplFailed(t, 3)
  /\ UNCHANGED <<unit, gemini_api_key, fs, video, loc, results, lastRun>>

\* events = extract_events_with_llm(formatted_transcript, task_id); None
\* (no credential, or the detector call raises) is the failure; a list,
\* empty or not, is written to <task_dir>/events.json, and a write that
\* raises ends the thread.
TplExtractEvents(t) ==
  /\ pc[t] = TplRunPc[4]
  /\ Sched(t)
  /\ LET h == Invoked(hist[t], TplStageFns[4])
     IN \/ /\ ~gemini_api_key
           /\ hist' = [hist EXCEPT ![t] = Failed(h, TplStageFns[4])]
           /\ TplFailed(t, 4)
           /\ UNCHANGED <<fs, loc>>
        \/ /\ gemini_api_key
           /\ CanFault(t)
           /\ hist' = [hist EXCEPT ![t] = Faulted(Failed(h, TplStageFns[4]))]
           /\ TplFailed(t, 4)
           /\ UNCHANGED <<fs, loc>>
        \/ /\ gemini_api_key
           /\ \E events \in EventLists :
                /\ loc' = [loc EXCEPT ![t].events = events]
                /\ fs' = [fs EXCEPT ![TaskDir(t)].events = "ok",
                                    ![TaskDir(t)].events_data = events]
           /\ hist' = [hist EXCEPT ![t] = h]
           /\ pc' = [pc EXCEPT ![t] = TplStatusPc[5]]
           /\ status' = status
        \/ /\ gemini_api_key
           /\ CanFault(t)
           /\ \E left \in {"empty", "partial"} :
                fs' = [fs EXCEPT ![TaskDir(t)].events = left]
           /\ loc' = [loc EXCEPT ![t].exc = "OSError"]
           /\ hist' = [hist EXCEPT ![t] = Faulted(h)]
           /\ pc' = [pc EXCEPT ![t] = "t_done"]
           /\ status' = status
  /\ UNCHANGED <<unit, gemini_api_key, video, results, lastRun>>

\* The clips directory after create_clips_from_events ran on `events` and
\* the cut of the event at `fail` (0: none) failed, leaving `left`.
TplClipsCut(events, fail, left) ==
  [i \in 1..MaxEvents |->
     IF i = fail THEN left
     ELSE IF i <= Len(events) /\ Duration(events[i]) > 0 THEN "ok"
     ELSE "absent"]

\* (an empty clip list handed on to the stitching stage)
TplNoClipsStitch(t) ==
  /\ status' = status
  /\ pc' = [pc EXCEPT ![t] = TplStatusPc[6]]

\* if not clip_paths: update_status(task_dir, "Complete: No highlight
\* events ..."); return
TplNoClips(t) ==
  /\ status' = [status EXCEPT ![t] = update_status(TplNoEventsText, None)]
  /\ pc' = [pc EXCEPT ![t] = "t_done"]

\* clip_paths = create_clips_from_events(events_path, video_path, task_id):
\* the clips of the events of positive duration, less the one whose cut
\* failed; or None when the function itself fails.
TplCreateClips(t) ==
  /\ pc[t] = TplRunPc[5]
  /\ Sched(t)
  /\ LET h == Invoked(hist[t], TplStageFns[5])
         events == fs[TaskDir(t)].events_data
     IN \/ \E fail \in 0..Len(events), left \in {"absent", "partial"} :
             /\ fail = 0 => left = "absent"
             /\ fail # 0 => CanFault(t) /\ Duration(events[fail]) > 0
             /\ LET dir == TplClipsCut(events, fail, left)
                    clip_paths == ListFrom(TplClipsCut(events, fail, "absent"), 1)
                IN /\ fs' = [fs EXCEPT ![TaskDir(t)].clips = dir]
                   /\ loc' = [loc EXCEPT ![t].clips = clip_paths]
                   /\ hist' = [hist EXCEPT ![t] =
                        [(IF fail = 0 THEN h ELSE Faulted(h)) EXCEPT !.zero = (clip_paths = << >>)]]
                   /\ IF clip_paths = << >>
                      THEN TplNoClips(t)
                      ELSE /\ status' = status
                           /\ pc' = [pc EXCEPT ![t] = TplStatusPc[6]]
        \/ /\ CanFault(t)
           /\ hist' = [hist EXCEPT ![t] = Faulted(Failed(h, TplStageFns[5]))]
           /\ TplFailed(t, 5)
           /\ UNCHANGED <<fs, loc>>
  /\ UNCHANGED <<unit, gemini_api_key, video, results, lastRun>>

\* summary_path = stitch_clips(clip_paths, task_id), in the directory above
\* the clips directory: the task directory; then the "Complete" status with
\* the summary's file name.
TplStitch(t) ==
  /\ pc[t] = TplRunPc[6]
  /\ Sched(t)
  /\ LET h == Invoked(hist[t], TplStageFns[6])
     IN \/ /\ fs' = [fs EXCEPT ![TaskDir(t)].summary = "ok"]
           /\ hist' = [hist EXCEPT ![t] = h]
           /\ status' = [status EXCEPT ![t] =
                           update_status("Complete", <<TaskDir(t), "summary.mp4">>)]
           /\ pc' = [pc EXCEPT ![t] = "t_done"]
        \/ /\ CanFault(t)
           /\ \E left \in {"absent", "partial"}, list \in {"absent", "ok"} :
                fs' = [fs EXCEPT ![TaskDir(t)].summary = left,
                                 ![TaskDir(t)].concat = list]
           /\ hist' = [hist EXCEPT ![t] = Faulted(Failed(h, TplStageFns[6]))]
           /\ TplFailed(t, 6)
  /\ UNCHANGED <<unit, gemini_api_key, video, loc, results, lastRun>>

TplNext ==
  \E t \in Tasks :
    \/ TplUpload(t)
    \/ TplStatus(t)
    \/ TplExtractAudio(t) \/ TplTranscribe(t) \/ TplFormat(t)
    \/ TplExtractEvents(t) \/ TplCreateClips(t) \/ TplStitch(t)

TemplateSpec == Init /\ [][TplNext]_vars

\* ------------------------------------------------------ either application
\* What is deployed is app.py with the caching pipeline, or templates/app.py
\* with its own orchestrator: every upload of a run is served by the same
\* one.
TplPcs ==
  {TplStatusPc[k] : k \in 1..TplStageCount} \cup {TplRunPc[k] : k \in 1..TplStageCount}
    \cup {"t_done"}

AppsNext ==
  \/ (\A t \in Tasks : pc[t] \notin TplPcs) /\ Next
  \/ (\A t \in Tasks : pc[t] \in TplPcs \cup {"idle"}) /\ TplNext

AppsSpec == Init /\ [][AppsNext]_vars

\* ========================================================= status store
\* The status surface of app.py on its own: update_status as the two steps
\* it is (open(..., 'w') truncates, json.dump then writes), the worker of
\* process_with_pipeline around a run_pipeline that returns or raises, and
\* the poll handler get_task_status_json.

\* status.json just opened with 'w': zero bytes.
EmptyFile == [empty |-> TRUE]

\* (a missing status.json answered like any other unreadable file)
get_task_status_json_strict(file) ==
  IF file \in {NoFile, EmptyFile}
  THEN [code |-> 500, body |-> [error |-> "Internal Server Error"]]
  ELSE [code |-> 200, body |-> file]

\* get_task_status_json(task_id), as a function of what status.json holds:
\* FileNotFoundError gives the default; json.load of a zero-byte file raises
\* JSONDecodeError, which nothing catches (the framework answers 500).
get_task_status_json(file) ==
  IF file = NoFile THEN [code |-> 200, body |-> [status |-> "Initializing..."]]
  ELSE IF file = EmptyFile
  THEN [code |-> 500, body |-> [error |-> "Internal Server Error"]]
  ELSE [code |-> 200, body |-> file]

\* upload_file: the task directory, the saved video, the worker thread.
UploadFile(t) ==
  /\ pc[t] = "idle"
  /\ \A u \in Tasks : u < t => pc[u] # "idle"
  /\ pc' = [pc EXCEPT ![t] = "a_checking"]
  /\ UNCHANGED <<gemini_api_key, fs, status, video, loc, results, hist, lastRun, sched>>
  /\ UNCHANGED unit

\* The four update_status calls of process_with_pipeline.
StatusCalls == {"a_checking", "a_nosummary", "a_complete", "a_error"}

\* What the call the worker is at writes.
StatusData(t) ==
  CASE pc[t] \in {"a_checking", "a_checking_dump"} ->
         update_status("Checking for cached results...", None)
    [] pc[t] \in {"a_nosummary", "a_nosummary_dump"} ->
         update_status("Error: Pipeline failed to produce summary video.", None)
    [] pc[t] \in {"a_complete", "a_complete_dump"} ->
         update_status("Complete", results[t].summary_path)
    [] pc[t] \in {"a_error", "a_error_dump"} ->
         update_status("Error: " \o loc[t].exc, None)

\* update_status: with open(os.path.join(task_dir, 'status.json'), 'w') as f
OpenStatus(t) ==
  /\ pc[t] \in StatusCalls
  /\ status' = [status EXCEPT ![t] = EmptyFile]
  /\ pc' = [pc EXCEPT ![t] = @ \o "_dump"]
  /\ UNCHANGED <<gemini_api_key, fs, video, loc, results, hist, lastRun, sched>>
  /\ UNCHANGED unit

\* update_status: json.dump(status_data, f), and the file is closed
DumpStatus(t) ==
  /\ pc[t] \in {c \o "_dump" : c \in StatusCalls}
  /\ status' = [status EXCEPT ![t] = StatusData(t)]
  /\ pc' = [pc EXCEPT ![t] = IF @ = "a_checking_dump" THEN "a_run" ELSE "done"]
  /\ UNCHANGED <<gemini_api_key, fs, video, loc, results, hist, lastRun, sched>>
  /\ UNCHANGED unit

\* results = run_pipeline(video_path, task_id): it returns its dictionary
\* or raises; then `if not results.get('summary_path')`.
RunPipeline(t) ==
  /\ pc[t] = "a_run"
  /\ \/ /\ results' = [results EXCEPT ![t] = Results(t)]
        /\ pc' = [pc EXCEPT ![t] = IF ~Truthy(Results(t).summary_path)
                                   THEN "a_nosummary" ELSE "a_complete"]
        /\ loc' = loc
     \/ /\ \E e \in {"OSError", "FileNotFoundError", "JSONDecodeError"} :
             loc' = [loc EXCEPT ![t].exc = e]
        /\ pc' = [pc EXCEPT ![t] = "a_error"]
        /\ results' = results
  /\ UNCHANGED <<gemini_api_key, fs, status, video, hist, lastRun, sched>>
  /\ UNCHANGED unit

\* GET /task/<task_id>/status, at any moment after the upload.
Poll(t) ==
  /\ pc[t] # "idle"
  /\ response' = [response EXCEPT ![t] = get_task_status_json(status[t])]
  /\ UNCHANGED <<main, llm, cut, tc>>

StatusNext ==
  \E t \in Tasks :
    \/ UploadFile(t)
    \/ OpenStatus(t)
    \/ DumpStatus(t)
    \/ RunPipeline(t)
    \/ Poll(t)

\* The application has started with the credential set.
StatusInit == Init /\ gemini_api_key

StatusSpec == StatusInit /\ [][StatusNext]_vars

\* ================================================================ strings
\* A Python str is the sequence of its characters.  The characters the
\* model's texts use, in ascending code point order (str comparison, and so
\* sorted(), compares code points).
CodePoints ==
  <<" ", "-", ".", "/", "0", "1", "2", "3", "4", "5", "6", "7", "8", "9", ":",
    "A", "B", "C", "D", "E", "F", "G", "H", "I", "J", "K", "L", "M", "N",
    "O", "P", "Q", "R", "S", "T", "U", "V", "W", "X", "Y", "Z", "[", "]",
    "_", "a", "b", "c", "d", "e", "f", "g", "h", "i", "j", "k", "l", "m",
    "n", "o", "p", "q", "r", "s", "t", "u", "v", "w", "x", "y", "z">>

UpperCase ==
  <<"A", "B", "C", "D", "E", "F", "G", "H", "I", "J", "K", "L", "M", "N",
    "O", "P", "Q", "R", "S", "T", "U", "V", "W", "X", "Y", "Z">>

LowerCase ==
  <<"a", "b", "c", "d", "e", "f", "g", "h", "i", "j", "k", "l", "m", "n",
    "o", "p", "q", "r", "s", "t", "u", "v", "w", "x", "y", "z">>

Digits ==
  <<"0", "1", "2", "3", "4", "5", "6", "7", "8", "9">>

\* ord(c), up to an order-preserving renumbering
Ord(c) == CHOOSE i \in 1..Len(CodePoints) : CodePoints[i] = c

\* str.lower() and str.upper() on one character
LowerChar(c) ==
  IF \E i \in 1..26 : UpperCase[i] = c
  THEN LowerCase[CHOOSE i \in 1..26 : UpperCase[i] = c] ELSE c

UpperChar(c) ==
  IF \E i \in 1..26 : LowerCase[i] = c
  THEN UpperCase[CHOOSE i \in 1..26 : LowerCase[i] = c] ELSE c

lower(s) == [i \in 1..Len(s) |-> LowerChar(s[i])]
upper(s) == [i \in 1..Len(s) |-> UpperChar(s[i])]

\* str.capitalize(): the first character upper-cased, the rest lower-cased
capitalize(s) == [i \in 1..Len(s) |-> IF i = 1 THEN UpperChar(s[i]) ELSE LowerChar(s[i])]

\* str.replace(old, new) for single characters
replace(s, old, new) == [i \in 1..Len(s) |-> IF s[i] = old THEN new ELSE s[i]]

\* str.endswith(suffix)
endswith(s, suffix) ==
  /\ Len(s) >= Len(suffix)
  /\ SubSeq(s, Len(s) - Len(suffix) + 1, Len(s)) = suffix

\* str.strip(chars): leading and trailing characters of the set removed
strip(s, chars) ==
  LET keep == {i \in 1..Len(s) : s[i] \notin chars}
  IN IF keep = {} THEN << >>
     ELSE LET lo == CHOOSE i \in keep : \A j \in keep : i <= j
              hi == CHOOSE i \in keep : \A j \in keep : i >= j
          IN SubSeq(s, lo, hi)

\* The whitespace str.strip() removes by default.
Whitespace == {" ", "\n"}

\* str.find(sep, from): the first index at or after `from` where sep
\* begins, 0 when there is none (indices from 1).
find(s, sep, from) ==
  LET at == {i \in from..(Len(s) - Len(sep) + 1) : SubSeq(s, i, i + Len(sep) - 1) = sep}
  IN IF at = {} THEN 0 ELSE CHOOSE i \in at : \A j \in at : i <= j

\* str.split(sep, maxsplit): cut at the occurrences of sep from the left,
\* at most maxsplit times (-1: no limit); the rest stays whole.
RECURSIVE split(_, _, _)
split(s, sep, maxsplit) ==
  LET at == find(s, sep, 1)
  IN IF maxsplit = 0 \/ at = 0 THEN <<s>>
     ELSE <<SubSeq(s, 1, at - 1)>>
          \o split(SubSeq(s, at + Len(sep), Len(s)), sep,
                   IF maxsplit < 0 THEN maxsplit ELSE maxsplit - 1)

\* sep.join(parts)
RECURSIVE join(_, _)
join(parts, sep) ==
  IF parts = << >> THEN << >>
  ELSE IF Len(parts) = 1 THEN parts[1]
  ELSE parts[1] \o sep \o join(Tail(parts), sep)

\* int(s) for an unsigned decimal numeral with surrounding whitespace; any
\* other text raises ValueError (modelled as -1; no text here is signed).
RECURSIVE DigitsValue(_)
DigitsValue(s) ==
  IF s = << >> THEN 0
  ELSE DigitsValue(SubSeq(s, 1, Len(s) - 1)) * 10
       + ((CHOOSE i \in 1..10 : Digits[i] = s[Len(s)]) - 1)

ValueError == -1

int(s) ==
  LET d == strip(s, Whitespace)
  IN IF d # << >> /\ \A i \in 1..Len(d) : \E k \in 1..10 : Digits[k] = d[i]
     THEN DigitsValue(d) ELSE ValueError

\* str(n) for n >= 0
RECURSIVE str(_)
str(n) == IF n < 10 THEN <<Digits[n + 1]>> ELSE str(n \div 10) \o <<Digits[(n % 10) + 1]>>

\* ======================================================= event protocol
\* extract_events_with_llm from the detector's response on, and
\* create_clips_from_events over the events it yields, as single calls.

\* Lines of a response text beyond which the texts below do not go.
MaxLines == 2
\* Clip cuts that fail in the transcoder during one call.
MaxCutFaults == 1

\* ' - ' and '\n'
Separator == <<" ", "-", " ">>
Newline == <<"\n">>

\* Lines the detector may answer.
\* (the example line of the specification)
GoalLine ==
  <<"0", "0", ":", "1", "2", ":", "0", "3", " ", "-", " ", "0", "0", ":",
    "1", "2", ":", "2", "5", " ", "-", " ", "A", "r", "g", "e", "n", "t",
    "i", "n", "a", " ", "-", " ", "g", "o", "a", "l", " ", "-", " ", "H",
    "e", "a", "d", "e", "r", " ", "G", "o", "a", "l", " ", "b", "y", " ",
    "M", "e", "s", "s", "i">>

\* (two fields)
BadLine ==
  <<"b", "a", "d", " ", "-", " ", "l", "i", "n", "e">>

\* (only whitespace)
BlankLine ==
  <<" ">>

\* (bracketed timestamps, a separator inside the description)
FoulLine ==
  <<"[", "0", "0", ":", "0", "1", ":", "0", "0", "]", " ", "-", " ", "[",
    "0", "0", ":", "0", "1", ":", "3", "0", "]", " ", "-", " ", "N", "/",
    "A", " ", "-", " ", "f", "o", "u", "l", " ", "-", " ", "F", "o", "u",
    "l", " ", "-", " ", "l", "a", "t", "e", " ", "t", "a", "c", "k", "l",
    "e">>

\* (an empty description: the line ends with the separator)
NoDescriptionLine ==
  <<"0", "0", ":", "0", "2", ":", "0", "0", " ", "-", " ", "0", "0", ":",
    "0", "2", ":", "1", "0", " ", "-", " ", "F", "r", "a", "n", "c", "e",
    " ", "-", " ", "m", "i", "s", "s", "e", "d", " ", "g", "o", "a", "l",
    " ", "-", " ">>

\* (surrounding whitespace, the type in capitals)
ReplacementLine ==
  <<" ", "0", "0", ":", "0", "3", ":", "0", "0", " ", "-", " ", "0", "0",
    ":", "0", "3", ":", "4", "0", " ", "-", " ", "F", "r", "a", "n", "c",
    "e", " ", "-", " ", "R", "E", "P", "L", "A", "C", "E", "M", "E", "N",
    "T", " ", "-", " ", "G", "i", "r", "o", "u", "d", " ", "I", "N", " ">>

\* (end equal to start)
InstantLine ==
  <<"0", "0", ":", "0", "4", ":", "0", "0", " ", "-", " ", "0", "0", ":",
    "0", "4", ":", "0", "0", " ", "-", " ", "N", "/", "A", " ", "-", " ",
    "e", "p", "i", "l", "o", "g", "u", "e", " ", "-", " ", "F", "i", "n",
    "a", "l", " ", "w", "h", "i", "s", "t", "l", "e">>

\* (a two-word type in mixed case)
MissedLine ==
  <<"0", "0", ":", "0", "5", ":", "0", "0", " ", "-", " ", "0", "0", ":",
    "0", "5", ":", "0", "9", " ", "-", " ", "F", "r", "a", "n", "c", "e",
    " ", "-", " ", "M", "i", "s", "s", "e", "d", " ", "G", "o", "a", "l",
    " ", "-", " ", "S", "h", "o", "t", " ", "w", "i", "d", "e">>

\* (a start that is no timecode)
SoonLine ==
  <<"s", "o", "o", "n", " ", "-", " ", "0", "0", ":", "0", "6", ":", "0",
    "0", " ", "-", " ", "N", "/", "A", " ", "-", " ", "G", "O", "A", "L",
    " ", "-", " ", "O", "w", "n", " ", "g", "o", "a", "l">>

\* (a type without an overlay of its own)
PrologueLine ==
  <<"0", "0", ":", "0", "7", ":", "0", "0", " ", "-", " ", "0", "0", ":",
    "0", "7", ":", "0", "5", " ", "-", " ", "N", "/", "A", " ", "-", " ",
    "p", "r", "o", "l", "o", "g", "u", "e", " ", "-", " ", "T", "e", "a",
    "m", "s", " ", "w", "a", "l", "k", " ", "o", "u", "t">>

\* (a type outside the prompt's list)
CornerLine ==
  <<"0", "0", ":", "0", "8", ":", "0", "0", " ", "-", " ", "0", "0", ":",
    "0", "8", ":", "0", "4", " ", "-", " ", "N", "/", "A", " ", "-", " ",
    "c", "o", "r", "n", "e", "r", " ", "k", "i", "c", "k", " ", "-", " ",
    "C", "o", "r", "n", "e", "r">>

\* (the end before the start)
BackwardsLine ==
  <<"0", "0", ":", "0", "9", ":", "0", "0", " ", "-", " ", "0", "0", ":",
    "0", "8", ":", "0", "0", " ", "-", " ", "N", "/", "A", " ", "-", " ",
    "g", "o", "a", "l", " ", "-", " ", "V", "A", "R", " ", "c", "h", "e",
    "c", "k">>

LineKinds ==
  {GoalLine, BadLine, BlankLine, FoulLine,
   NoDescriptionLine, ReplacementLine, InstantLine, MissedLine,
   SoonLine, PrologueLine, CornerLine, BackwardsLine}

\* The specification's ten-line example: nine well-formed lines and the
\* two-field line at position k.
TenLines(k) == [i \in 1..10 |-> IF i = k THEN BadLine ELSE GoalLine]

\* n well-formed lines, for event lists of ten and more.
GoalLines(n) == [i \in 1..n |-> GoalLine]

\* response.text: up to MaxLines lines of any kind, the ten-line examples,
\* and ten and eleven well-formed lines.
ResponseTexts ==
  {join(ls, Newline) : ls \in UNION {[1..n -> LineKinds] : n \in 0..MaxLines}}
    \cup {join(TenLines(k), Newline) : k \in 1..10}
    \cup {join(GoalLines(n), Newline) : n \in 10..11}

\* parts = line.split(' - ', 4)
\* (no limit on the number of splits)
SplitEverySeparator(line) == split(line, Separator, -1)

SplitLine(line) == split(line, Separator, 4)

\* The dictionary appended for a line of five parts.
EventOf(parts) ==
  [start_timestamp |-> strip(parts[1], {"[", "]", " "}),
   end_timestamp |-> strip(parts[2], {"[", "]", " "}),
   team |-> parts[3],
   event_type |-> parts[4],
   description |-> parts[5]]

\* The detector has answered: response.text is any of the texts.
InitEvents ==
  /\ InitMain
  /\ gemini_api_key
  /\ response = [t \in Tasks |-> NoResponse]
  /\ llm \in {[at |-> "response", text |-> x, lines |-> << >>, events |-> << >>] :
                x \in ResponseTexts}
  /\ cut = NoCall
  /\ tc = NoCall

\* events = []; for line in response.text.strip().split('\n')
SplitResponse ==
  /\ llm # NoCall
  /\ llm.at = "response"
  /\ llm' = [llm EXCEPT !.at = "loop",
                        !.lines = split(strip(llm.text, Whitespace), Newline, -1)]
  /\ UNCHANGED <<main, response, cut, tc>>

\* One iteration: line = line.strip(); a blank line is passed over; a line
\* of five parts is appended as an event; any other is logged and skipped.
ParseLine ==
  /\ llm # NoCall
  /\ llm.at = "loop"
  /\ llm.lines # << >>
  /\ LET line == strip(Head(llm.lines), Whitespace)
         parts == SplitLine(line)
     IN llm' = [llm EXCEPT
                  !.lines = Tail(@),
                  !.events = IF line = << >> THEN @
                             ELSE IF Len(parts) = 5 THEN Append(@, EventOf(parts))
                             ELSE @]
  /\ UNCHANGED <<main, response, cut, tc>>

\* return events
ReturnEvents ==
  /\ llm # NoCall
  /\ llm.at = "loop"
  /\ llm.lines = << >>
  /\ llm' = [llm EXCEPT !.at = "returned"]
  /\ UNCHANGED <<main, response, cut, tc>>

\* h, m, s = map(int, time_str.split(':')): the three numbers, or << >>
\* when the unpacking or an int() raises ValueError.
TimeParts(time_str) ==
  LET parts == split(time_str, <<":">>, -1)
  IN IF Len(parts) # 3 THEN << >>
     ELSE IF \E k \in 1..3 : int(parts[k]) = ValueError THEN << >>
     ELSE <<int(parts[1]), int(parts[2]), int(parts[3])>>

\* (a string that does not convert counted as zero seconds)
time_str_to_seconds_lenient(time_str) ==
  IF TimeParts(time_str) = << >> THEN 0
  ELSE time_to_seconds(TimeParts(time_str))

\* time_to_seconds(time_str) on a str: the seconds, or ValueError.
time_str_to_seconds(time_str) ==
  IF TimeParts(time_str) = << >> THEN ValueError
  ELSE time_to_seconds(TimeParts(time_str))

\* The keys of overlay_configs and the fixed parts of the overlay texts.
KeyGoal ==
  <<"G", "o", "a", "l">>

KeyFoul ==
  <<"F", "o", "u", "l">>

KeyReplacement ==
  <<"R", "e", "p", "l", "a", "c", "e", "m", "e", "n", "t">>

KeyMissedGoal ==
  <<"M", "i", "s", "s", "e", "d", " ", "g", "o", "a", "l">>

TextGoalBy ==
  <<"G", "O", "A", "L", " ", "b", "y", " ">>

TextFoul ==
  <<"F", "O", "U", "L", ":", " ">>

TextSubstitution ==
  <<"S", "U", "B", "S", "T", "I", "T", "U", "T", "I", "O", "N", ":", " ">>

TextMissedChance ==
  <<"M", "I", "S", "S", "E", "D", " ", "C", "H", "A", "N", "C", "E", ":",
    " ">>

TextColon ==
  <<":", " ">>

\* get_event_overlay_config(event_data_for_overlay): <<text, box_color>>
get_event_overlay_config(event_data_for_overlay) ==
  LET data == event_data_for_overlay
      default_config ==
        [text |-> upper(data.type) \o TextColon \o data.description,
         box_color |-> "white@0.5"]
      config ==
        CASE data.type = KeyGoal ->
               [text |-> TextGoalBy \o upper(data.team_name), box_color |-> "red@0.5"]
          [] data.type = KeyFoul ->
               [text |-> TextFoul \o data.description, box_color |-> "yellow@0.5"]
          [] data.type = KeyReplacement ->
               [text |-> TextSubstitution \o data.description, box_color |-> "blue@0.5"]
          [] data.type = KeyMissedGoal ->
               [text |-> TextMissedChance \o upper(data.team_name),
                box_color |-> "orange@0.5"]
          [] OTHER -> default_config
  IN <<config.text, config.box_color>>

\* (a test that lets a zero duration through)
NegativeDuration(duration) == duration < 0

\* if duration <= 0: ... continue
InvalidDuration(duration) == duration <= 0

ClipPrefix ==
  <<"c", "l", "i", "p", "_">>

Mp4 ==
  <<".", "m", "p", "4">>

\* (the type put into the name as it is)
clip_filename_raw(i, event_type) ==
  ClipPrefix \o str(i + 1) \o <<"_">> \o event_type \o Mp4

\* filename_event_type = event['event_type'].replace(' ', '_').lower()
\* clip_filename = f"clip_{i+1}_{filename_event_type}.mp4"
clip_filename(i, event_type) ==
  ClipPrefix \o str(i + 1) \o <<"_">> \o lower(replace(event_type, " ", "_")) \o Mp4

\* (the type looked up as the detector wrote it)
OverlayTypeAsWritten(event_type) == event_type

\* 'type': event['event_type'].capitalize()
OverlayType(event_type) == capitalize(event_type)

\* a < b for str: the first differing character decides, a proper prefix
\* is smaller.
LessStr(a, b) ==
  \/ \E k \in 1..Len(a) :
       /\ k <= Len(b)
       /\ SubSeq(a, 1, k - 1) = SubSeq(b, 1, k - 1)
       /\ Ord(a[k]) < Ord(b[k])
  \/ Len(a) < Len(b) /\ SubSeq(b, 1, Len(a)) = a

\* sorted(names) for distinct names
RECURSIVE sorted(_)
sorted(names) ==
  IF names = {} THEN << >>
  ELSE LET first == CHOOSE x \in names : \A y \in names : x = y \/ LessStr(x, y)
       IN <<first>> \o sorted(names \ {first})

\* create_clips_from_events(events_path, ...) on the events the detector
\* stage produced: events = json.load(f); an empty list returns [] at
\* once; otherwise the clips directory is made and the loop begins.
LoadEvents ==
  /\ llm # NoCall
  /\ llm.at = "returned"
  /\ cut = NoCall
  /\ cut' = [at |-> IF llm.events = << >> THEN "returned" ELSE "loop",
             events |-> llm.events, i |-> 0, created_clips |-> << >>,
             calls |-> << >>, dir |-> {}, faults |-> 0, clips |-> << >>]
  /\ UNCHANGED <<main, response, llm, tc>>

\* One iteration of `for i, event in enumerate(events)`: a timestamp that
\* does not convert raises and the event is passed over; a duration <= 0 is
\* skipped; otherwise the name and the overlay are computed and ffmpeg is
\* run (calls records what it is handed), which cuts the clip, or fails,
\* leaving a stub or nothing, and the loop goes on.
PlanClip ==
  /\ cut # NoCall
  /\ cut.at = "loop"
  /\ cut.i < Len(cut.events)
  /\ LET event == cut.events[cut.i + 1]
         start_seconds == time_str_to_seconds(event.start_timestamp)
         end_seconds == time_str_to_seconds(event.end_timestamp)
         raised == start_seconds = ValueError \/ end_seconds = ValueError
         duration == end_seconds - start_seconds
         name == clip_filename(cut.i, event.event_type)
         overlay == get_event_overlay_config(
                      [type |-> OverlayType(event.event_type),
                       team_name |-> event.team,
                       description |-> event.description])
         call == [index |-> cut.i + 1, ss |-> start_seconds, t |-> duration,
                  text |-> overlay[1], boxcolor |-> overlay[2],
                  clip_filename |-> name]
     IN \/ /\ raised
           /\ cut' = [cut EXCEPT !.i = @ + 1]
        \/ /\ ~raised
           /\ InvalidDuration(duration)
           /\ cut' = [cut EXCEPT !.i = @ + 1]
        \/ /\ ~raised
           /\ ~InvalidDuration(duration)
           /\ cut' = [cut EXCEPT !.i = @ + 1,
                                 !.calls = Append(@, call),
                                 !.created_clips = Append(@, name),
                                 !.dir = @ \cup {name}]
        \/ /\ ~raised
           /\ ~InvalidDuration(duration)
           /\ cut.faults < MaxCutFaults
           /\ \E stub \in BOOLEAN :
                cut' = [cut EXCEPT !.i = @ + 1,
                                   !.calls = Append(@, call),
                                   !.faults = @ + 1,
                                   !.dir = IF stub THEN @ \cup {name} ELSE @]
  /\ UNCHANGED <<main, response, llm, tc>>

\* return created_clips
ReturnClips ==
  /\ cut # NoCall
  /\ cut.at = "loop"
  /\ cut.i = Len(cut.events)
  /\ cut' = [cut EXCEPT !.at = "returned"]
  /\ UNCHANGED <<main, response, llm, tc>>

\* run_pipeline after the stage: clips = [... for f in
\* sorted(os.listdir(clips_dir)) if f.endswith('.mp4')], the list handed to
\* stitch_clips, which writes it to concat_list.txt in that order.
ListClipsDir ==
  /\ cut # NoCall
  /\ cut.at = "returned"
  /\ cut' = [cut EXCEPT !.at = "listed",
                        !.clips = SelectSeq(sorted(cut.dir), LAMBDA f : endswith(f, Mp4))]
  /\ UNCHANGED <<main, response, llm, tc>>

EventsNext ==
  \/ SplitResponse \/ ParseLine \/ ReturnEvents
  \/ LoadEvents \/ PlanClip \/ ReturnClips \/ ListClipsDir

\* ------------------------------------------------------------- timecodes
\* The hours, and the minutes and seconds, the timecodes below are written
\* from.
Hours == {0, 1, 9, 10, 23, 24, 47, 48, 99}
Sixtieths == {0, 9, 10, 59}

\* "%02d" % n
TwoDigits(n) == IF n < 10 THEN <<"0">> \o str(n) ELSE str(n)

\* The hh:mm:ss string of h hours, m minutes, s seconds.
TimeStr(h, m, s) == TwoDigits(h) \o <<":">> \o TwoDigits(m) \o <<":">> \o TwoDigits(s)

TextDay ==
  <<" ", "d", "a", "y">>

\* (minutes and seconds only: "M:SS")
timedelta_str_minutes(n) == str(n \div 60) \o <<":">> \o TwoDigits(n % 60)

\* str(datetime.timedelta(seconds=n)) for n >= 0: "H:MM:SS", after
\* "D day, " or "D days, " when n is a day or more.
timedelta_str(n) ==
  LET days == n \div 86400
      hh == (n % 86400) \div 3600
      mm == (n % 3600) \div 60
      ss == n % 60
      plural == IF days = 1 THEN << >> ELSE <<"s">>
  IN (IF days = 0 THEN << >> ELSE str(days) \o TextDay \o plural \o <<",", " ">>)
     \o str(hh) \o <<":">> \o TwoDigits(mm) \o <<":">> \o TwoDigits(ss)

\* A valid hh:mm:ss string is about to be converted.
InitTimecode ==
  /\ InitMain
  /\ gemini_api_key
  /\ response = [t \in Tasks |-> NoResponse]
  /\ llm = NoCall
  /\ cut = NoCall
  /\ tc \in {[at |-> "time_str", h |-> h, m |-> m, s |-> s, time_str |-> TimeStr(h, m, s),
              seconds |-> 0, timestamp |-> << >>, back |-> 0] :
               h \in Hours, m \in Sixtieths, s \in Sixtieths}

\* seconds = time_to_seconds(time_str)
ToSeconds ==
  /\ tc # NoCall
  /\ tc.at = "time_str"
  /\ tc' = [tc EXCEPT !.at = "seconds", !.seconds = time_str_to_seconds(tc.time_str)]
  /\ UNCHANGED <<main, response, llm, cut>>

\* timestamp = str(datetime.timedelta(seconds=start_time_seconds))
FormatTimestamp ==
  /\ tc # NoCall
  /\ tc.at = "seconds"
  /\ tc' = [tc EXCEPT !.at = "timestamp", !.timestamp = timedelta_str(tc.seconds)]
  /\ UNCHANGED <<main, response, llm, cut>>

\* time_to_seconds(timestamp): the seconds again, or ValueError
BackToSeconds ==
  /\ tc # NoCall
  /\ tc.at = "timestamp"
  /\ tc' = [tc EXCEPT !.at = "back", !.back = time_str_to_seconds(tc.timestamp)]
  /\ UNCHANGED <<main, response, llm, cut>>

TimecodeNext == ToSeconds \/ FormatTimestamp \/ BackToSeconds

\* ----------------------------------------------------------- single calls
\* One function of pipeline.py called on its own: the parser and the clip
\* planner on a response text, or the timecode conversions on a timecode.
CallInit == InitEvents \/ InitTimecode

CallNext == EventsNext \/ TimecodeNext

CallSpec == CallInit /\ [][CallNext]_vars

\* ================================================================ claims
\* The stage functions of a stage.
StageFns(stage) ==
  CASE stage = "audio" -> {"extract_audio"}
    [] stage = "transcript" -> {"transcribe_audio"}
    [] stage = "events" -> {"format_transcript_with_timestamps", "extract_events_with_llm"}
    [] stage = "clips" -> {"create_clips_from_events"}
    [] stage = "summary" -> {"stitch_clips"}

Returned(t) == pc[t] = "done" /\ results[t] # NoResults

\* The texts process_with_pipeline can write as an error.
Exceptions == {"OSError", "FileNotFoundError", "JSONDecodeError"}
ErrorTexts ==
  {"Error: " \o e : e \in Exceptions} \cup {"Error: Pipeline failed to produce summary video."}
IsError(t) == status[t] # NoFile /\ status[t].status \in ErrorTexts
IsComplete(t) == status[t] # NoFile /\ status[t].status = "Complete"

\* C1: a cached artifact that is zero-byte, truncated or unparseable is
\* never taken for a cache hit: no run treats as a hit a stage whose
\* cache entry held such a file when the run checked it.
C1_CorruptIsMiss == \A t \in Tasks : hist[t].hit \cap hist[t].corrupt = {}

\* C2: a run is a no-op for every stage whose cache entry is valid when the
\* run checks it (none of its stage functions is invoked); and a run that
\* follows a returned run of the same content (neither overlapping another
\* worker of that content) returns the same audio, transcript and summary
\* paths, and the same events and clip paths for the stages found valid.
C2_RerunIsNoOp ==
  \A t \in Tasks :
    /\ \A stage \in hist[t].valid : StageFns(stage) \cap hist[t].invoked = {}
    /\ (Returned(t) /\ hist[t].solo /\ hist[t].prev.results # NoResults /\ hist[t].prev.solo)
         => LET now == results[t]
                before == hist[t].prev.results
            IN /\ now.audio_path = before.audio_path
               /\ now.txt_path = before.txt_path
               /\ now.json_path = before.json_path
               /\ now.summary_path = before.summary_path
               /\ "events" \in hist[t].valid => now.events = before.events
               /\ "clips" \in hist[t].valid => now.clips = before.clips

\* C2 witness: a re-run that found all five stages valid and called nothing.
C2_Witness ==
  \E t \in Tasks :
    /\ Returned(t) /\ hist[t].solo /\ hist[t].prev.results # NoResults /\ hist[t].prev.solo
    /\ hist[t].valid = Stages
    /\ hist[t].invoked = {}
    /\ results[t] = hist[t].prev.results

\* No worker of the video is inside a stage function.
BetweenStages(h) ==
  \A t \in Tasks :
    video[t] = h =>
      pc[t] \in {"idle", "p_start", "s1_check", "s2_check", "s3_check", "s3_read",
                 "s4_check", "s4_list", "s5_check", "s5_return", "p_except", "done"}

\* The outputs of a stage are all valid or all absent.
AllOrNothing(d) ==
  /\ fs[d].audio \in {"absent", "ok"}
  /\ \/ fs[d].txt = "ok" /\ fs[d].json = "ok"
     \/ fs[d].txt = "absent" /\ fs[d].json = "absent"
  /\ fs[d].events \in {"absent", "ok"}
  /\ LET evs == fs[d].events_data
         due == {i \in 1..Len(evs) : Duration(evs[i]) > 0}
     IN \/ \A i \in 1..MaxEvents : fs[d].clips[i] = "absent"
        \/ \A i \in 1..MaxEvents : fs[d].clips[i] = IF i \in due THEN "ok" ELSE "absent"
  /\ fs[d].summary \in {"absent", "ok"}

\* C3: between stage executions every stage's outputs in the cache
\* directory are all present and valid or all absent.
C3_AllOrNothing == \A h \in Videos : BetweenStages(h) => AllOrNothing(HashDir(h))

\* C4: every file visible under a final cache path is complete.
C4_NoPartialVisible ==
  \A h \in Videos :
    LET d == fs[HashDir(h)]
    IN /\ ~Broken(d.audio) /\ ~Broken(d.txt) /\ ~Broken(d.json)
       /\ ~Broken(d.events) /\ ~Broken(d.summary)
       /\ \A i \in 1..MaxEvents : ~Broken(d.clips[i])

\* C5: two tasks that ran concurrently on the same content, with the
\* credential set, no external failure and some event of positive
\* duration, both end Complete and report the same summary file.
C5_ConcurrentBothComplete ==
  \A t, u \in Tasks :
    (/\ t # u /\ video[t] = video[u]
     /\ pc[t] = "done" /\ pc[u] = "done"
     /\ ~hist[t].solo /\ ~hist[u].solo
     /\ gemini_api_key
     /\ hist[t].fault = 0 /\ hist[u].fault = 0
     /\ ~hist[t].zero /\ ~hist[u].zero)
    => /\ IsComplete(t) /\ IsComplete(u)
       /\ status[t] = status[u]

\* C6: a run in which a stage function reported failure ends with an
\* "Error: ..." status, never "Complete".
C6_FailureIsError ==
  \A t \in Tasks : (pc[t] = "done" /\ hist[t].failed # {}) => IsError(t)

\* C7: after a stage function has reported failure, no later stage
\* function is invoked in that run.
C7_FailureHalts == \A t \in Tasks : hist[t].afterFail = {}

\* The stage function whose stage ends where the worker is.
StageEnded(p) ==
  CASE p = "s2_check" -> "extract_audio"
    [] p = "s3_check" -> "transcribe_audio"
    [] p = "s3_read" -> "extract_events_with_llm"
    [] p = "s4_list" -> "create_clips_from_events"
    [] p = "s5_return" -> "stitch_clips"
    [] OTHER -> "none"

\* C8: when a stage function has failed, the cache entry directory holds
\* the same files with the same contents as when the stage began.
C8_FailureLeavesCache ==
  \A t \in Tasks :
    (hist[t].solo /\ StageEnded(pc[t]) \in hist[t].failed)
      => fs[HashDir(video[t])] = hist[t].snap

\* C9: a run whose event detection succeeded and yielded no valid clip
\* ends Complete without a summary_filename, without an error and without
\* calling stitch_clips.
C9_ZeroClipsComplete ==
  \A t \in Tasks :
    (pc[t] = "done" /\ hist[t].zero /\ hist[t].fault = 0)
      => /\ status[t] = update_status("Complete", None)
         /\ "stitch_clips" \notin hist[t].invoked

\* The stage a worker is running.
StageOfPc(p) ==
  CASE p \in {"s1_run", "s1_replace"} -> "audio"
    [] p \in {"s2_model", "s2_open_txt", "s2_write_txt", "s2_open_json",
              "s2_write_json", "s2_replace"} -> "transcript"
    [] p \in {"s3_detect", "s3_open", "s3_dump"} -> "events"
    [] p \in {"s4_load", "s4_clip"} -> "clips"
    [] p \in {"s5_stitch", "s5_ffmpeg", "s5_cleanup"} -> "summary"
    [] OTHER -> "none"

\* The stage a status text names (the texts of templates/app.py).
StageOfStatus(text) ==
  CASE text \in {"Extracting audio...", "Error: Audio extraction failed."} -> "audio"
    [] text \in {"Transcribing audio (using 'small' model)...",
                 "Error: Transcription failed."} -> "transcript"
    [] text \in {"Identifying key events with AI...",
                 "Error: AI event extraction failed."} -> "events"
    [] text \in {"Creating highlight clips...", "Error: Clip creation failed."} -> "clips"
    [] text \in {"Stitching final summary...", "Error: Video stitching failed."} -> "summary"
    [] OTHER -> "none"

\* C10: while a stage is running, the stored status names that stage.
C10_StatusNamesStage ==
  \A t \in Tasks :
    StageOfPc(pc[t]) # "none" => StageOfStatus(status[t].status) = StageOfPc(pc[t])

\* The status texts app.py writes or answers by default.
StatusTexts ==
  {"Initializing...", "Checking for cached results...", "Complete"} \cup ErrorTexts

\* An answer that is a status: 200 with a known status text.
WellFormed(r) ==
  /\ r.code = 200
  /\ "status" \in DOMAIN r.body
  /\ r.body.status \in StatusTexts

\* C11: a status poll issued at any moment of a task's life, also while
\* the worker is inside update_status, answers a well-formed status and
\* never an error response.
C11_PollWellFormed ==
  \A t \in Tasks : response[t] # NoResponse => WellFormed(response[t])

\* The default answer.
Initializing == [code |-> 200, body |-> [status |-> "Initializing..."]]

\* C12: a poll of a task whose worker has not yet called update_status
\* (no status.json) answers the default initializing status, not an error.
C12_MissingIsInitializing ==
  \A t \in Tasks :
    (pc[t] = "a_checking" /\ response[t] # NoResponse) => response[t] = Initializing

\* C12 witness: a task polled before its first status write.
C12_Witness ==
  \E t \in Tasks :
    pc[t] = "a_checking" /\ status[t] = NoFile /\ response[t] = Initializing

\* The worker of t has ended with a terminal status as the last one written.
Terminal(t) == pc[t] = "done" /\ (IsComplete(t) \/ IsError(t))

\* C13: every task whose worker has started eventually reaches a terminal
\* state, its last status a Complete or an "Error: ..." status, whatever
\* stage fails and whatever run_pipeline raises.
C13_ReachesTerminal ==
  \A t \in Tasks : (pc[t] = "p_start") ~> Terminal(t)

\* C13 witness: a run in which run_pipeline raised has ended in an error
\* status (the exception did not leave process_with_pipeline).
C13_Witness ==
  \E t \in Tasks :
    /\ Terminal(t)
    /\ results[t] = NoResults
    /\ status[t].status \in {"Error: " \o e : e \in Exceptions}

\* The index at which the n-th occurrence of the separator begins, going
\* from the left past each occurrence found; 0 when there is none.
RECURSIVE Occurrence(_, _)
Occurrence(line, n) ==
  IF n = 1 THEN find(line, Separator, 1)
  ELSE LET before == Occurrence(line, n - 1)
       IN IF before = 0 THEN 0 ELSE find(line, Separator, before + Len(Separator))

\* The text between the separators n-1 and n, and all that follows the
\* fourth separator.
Field(line, n) ==
  LET from == IF n = 1 THEN 1 ELSE Occurrence(line, n - 1) + Len(Separator)
  IN IF n = 5 THEN SubSeq(line, from, Len(line))
     ELSE SubSeq(line, from, Occurrence(line, n) - 1)

\* The record of a line with four separators or more.
Record(line) ==
  [start_timestamp |-> strip(Field(line, 1), {"[", "]", " "}),
   end_timestamp |-> strip(Field(line, 2), {"[", "]", " "}),
   team |-> Field(line, 3),
   event_type |-> Field(line, 4),
   description |-> Field(line, 5)]

\* The lines of a text as the detector wrote them.
LinesOf(text) == split(text, Newline, -1)

NonBlank(line) == strip(line, Whitespace) # << >>

\* The records of the lines of `ls` that hold four separators or more.
RECURSIVE Records(_)
Records(ls) ==
  IF ls = << >> THEN << >>
  ELSE IF Occurrence(Head(ls), 4) # 0
  THEN <<Record(Head(ls))>> \o Records(Tail(ls))
  ELSE Records(Tail(ls))

\* C14 as stated: the events returned are, in line order, one record per
\* non-blank line of the response that contains at least four separators.
C14_RecordPerLine ==
  (llm # NoCall /\ llm.at = "returned")
    => LET count == Cardinality({k \in 1..Len(LinesOf(llm.text)) :
                                   /\ NonBlank(LinesOf(llm.text)[k])
                                   /\ Occurrence(LinesOf(llm.text)[k], 4) # 0})
       IN Len(llm.events) = count

\* The lines as the loop sees them: each without its surrounding whitespace.
Stripped(ls) == [k \in 1..Len(ls) |-> strip(ls[k], Whitespace)]

\* C14 amended: the events returned are, in line order, exactly the
\* records of the lines that, once their surrounding whitespace is
\* stripped, hold at least four separators, each split at its first four
\* separators only; every other line adds nothing and changes no record
\* (so nine records for the ten-line example).
C14_RecordPerStrippedLine ==
  (llm # NoCall /\ llm.at = "returned")
    => /\ llm.events = Records(Stripped(LinesOf(llm.text)))
       /\ llm.text \in {join(TenLines(k), Newline) : k \in 1..10} => Len(llm.events) = 9

\* C14 witness: the ten-line example with the two-field line fifth has been
\* parsed to nine records, the fifth of them from the sixth line.
C14_Witness ==
  /\ llm # NoCall /\ llm.at = "returned"
  /\ llm.text = join(TenLines(5), Newline)
  /\ Len(llm.events) = 9
  /\ llm.events[5] = Record(GoalLine)
  /\ llm.events[5].description = Field(GoalLine, 5)

\* The record of the specification's example line, and its overlay text.
ExampleRecord ==
  [start_timestamp |-> <<"0", "0", ":", "1", "2", ":", "0", "3">>,
   end_timestamp |-> <<"0", "0", ":", "1", "2", ":", "2", "5">>,
   team |-> <<"A", "r", "g", "e", "n", "t", "i", "n", "a">>,
   event_type |-> <<"g", "o", "a", "l">>,
   description |->
     <<"H", "e", "a", "d", "e", "r", " ", "G", "o", "a", "l",
      " ", "b", "y", " ", "M", "e", "s", "s", "i">>]

ExampleOverlay ==
  <<"G", "O", "A", "L", " ", "b", "y", " ", "A", "R", "G", "E", "N", "T",
    "I", "N", "A">>

\* The loop of create_clips_from_events has ended.
Planned == cut # NoCall /\ cut.at \in {"returned", "listed"}

\* The event a transcoder call was made for.
EventOfCall(c) == cut.events[c.index]

\* C15: the example line parses to the example record; the clip planner
\* hands it to the transcoder with start 723 s, duration 22 s and the goal
\* overlay naming ARGENTINA; and time_to_seconds of any hh:mm:ss is
\* h*3600 + m*60 + s.
C15_ExampleLine ==
  /\ (llm # NoCall /\ llm.at = "returned" /\ llm.text = GoalLine)
       => llm.events = <<ExampleRecord>>
  /\ cut # NoCall
       => \A k \in 1..Len(cut.calls) :
            EventOfCall(cut.calls[k]) = ExampleRecord
              => /\ cut.calls[k].ss = 723
                 /\ cut.calls[k].t = 22
                 /\ cut.calls[k].text = ExampleOverlay
                 /\ cut.calls[k].boxcolor = "red@0.5"
  /\ (tc # NoCall /\ tc.at # "time_str")
       => tc.seconds = tc.h * 3600 + tc.m * 60 + tc.s

\* C15 witness: the example line alone has been parsed and planned.
C15_Witness ==
  /\ Planned
  /\ llm.text = GoalLine
  /\ cut.events = <<ExampleRecord>>
  /\ Len(cut.calls) = 1
  /\ cut.calls[1].ss = 723 /\ cut.calls[1].t = 22
  /\ cut.calls[1].text = ExampleOverlay

\* Both timestamps convert, and the end is after the start.
PositiveSpan(event) ==
  /\ TimeParts(event.start_timestamp) # << >>
  /\ TimeParts(event.end_timestamp) # << >>
  /\ time_str_to_seconds(event.end_timestamp) > time_str_to_seconds(event.start_timestamp)

\* C16: no event whose end is at or before its start is handed to the
\* transcoder or gets a clip path returned; it is dropped, and the events
\* after it are still processed.
C16_NoClipForNonPositive ==
  cut # NoCall
    => /\ \A k \in 1..Len(cut.calls) :
            /\ cut.calls[k].t > 0
            /\ PositiveSpan(EventOfCall(cut.calls[k]))
       /\ \A k \in 1..Len(cut.created_clips) :
            \E j \in 1..Len(cut.calls) :
              /\ cut.calls[j].clip_filename = cut.created_clips[k]
              /\ cut.calls[j].t > 0
       /\ Planned
            => \A n \in 1..Len(cut.events) :
                 PositiveSpan(cut.events[n])
                   => \E j \in 1..Len(cut.calls) : cut.calls[j].index = n

\* C16 witness: an event of zero duration before the example event; one
\* call, for the second event.
C16_Witness ==
  /\ Planned
  /\ llm.text = join(<<InstantLine, GoalLine>>, Newline)
  /\ Len(cut.events) = 2
  /\ Len(cut.calls) = 1
  /\ cut.calls[1].index = 2
  /\ Len(cut.created_clips) = 1

\* C17 as stated: a valid hh:mm:ss string converted to seconds, formatted
\* by str(timedelta) and converted again gives the same seconds.
C17_RoundTrip ==
  (tc # NoCall /\ tc.at = "back") => tc.back = tc.seconds

\* C17 amended: the same, for strings whose hours are 00..23.
C17_RoundTripWithinDay ==
  (tc # NoCall /\ tc.at = "back" /\ tc.h <= 23) => tc.back = tc.seconds

\* C17 witness: 23:59:59 has gone to 86399, to "23:59:59" and back.
C17_Witness ==
  /\ tc # NoCall /\ tc.at = "back"
  /\ tc.time_str = TimeStr(23, 59, 59)
  /\ tc.seconds = 86399
  /\ tc.back = 86399

\* The event position a clip file name carries: clip_<n>_...
PositionOf(name) == int(split(name, <<"_">>, 2)[2])

\* C18: the clips handed to stitch_clips are in ascending order of their
\* events' positions.
C18_StitchInEventOrder ==
  (cut # NoCall /\ cut.at = "listed")
    => \A a, b \in 1..Len(cut.clips) :
         a < b => PositionOf(cut.clips[a]) < PositionOf(cut.clips[b])

\* C19: every call's overlay is the one of its event's type, whatever the
\* letter case (goal red, foul yellow, replacement blue, missed goal
\* orange), any other type gets the default text on white, and no type
\* keeps an event of positive span from being handed over.
C19_OverlayTotal ==
  cut # NoCall
    => /\ \A k \in 1..Len(cut.calls) :
            LET c == cut.calls[k]
                e == EventOfCall(c)
                ty == lower(e.event_type)
            IN CASE ty = lower(KeyGoal) ->
                      c.text = TextGoalBy \o upper(e.team) /\ c.boxcolor = "red@0.5"
                 [] ty = lower(KeyFoul) ->
                      c.text = TextFoul \o e.description /\ c.boxcolor = "yellow@0.5"
                 [] ty = lower(KeyReplacement) ->
                      c.text = TextSubstitution \o e.description /\ c.boxcolor = "blue@0.5"
                 [] ty = lower(KeyMissedGoal) ->
                      c.text = TextMissedChance \o upper(e.team) /\ c.boxcolor = "orange@0.5"
                 [] OTHER ->
                      /\ c.text = upper(e.event_type) \o TextColon \o e.description
                      /\ c.boxcolor = "white@0.5"
       /\ Planned
            => Len(cut.calls) = Cardinality({n \in 1..Len(cut.events) : PositiveSpan(cut.events[n])})

\* C19 witness: a "Missed Goal" and a "corner kick" have been handed over,
\* the first on orange, the second on white.
C19_Witness ==
  /\ Planned
  /\ llm.text = join(<<MissedLine, CornerLine>>, Newline)
  /\ Len(cut.calls) = 2
  /\ cut.calls[1].boxcolor = "orange@0.5"
  /\ cut.calls[2].boxcolor = "white@0.5"

\* C20: the file name of the call for the event at position n is "clip_",
\* the decimal numeral of n, "_", the type with every space an underscore
\* and every letter lower-case, and ".mp4"; nothing else enters it.
C20_ClipFileName ==
  cut # NoCall
    => \A k \in 1..Len(cut.calls) :
         LET name == cut.calls[k].clip_filename
             n == cut.calls[k].index
             ty == EventOfCall(cut.calls[k]).event_type
             d == Len(str(n))
         IN /\ Len(name) = 5 + d + 1 + Len(ty) + 4
            /\ SubSeq(name, 1, 5) = ClipPrefix
            /\ int(SubSeq(name, 6, 5 + d)) = n
            /\ name[6 + d] = "_"
            /\ \A j \in 1..Len(ty) :
                 name[6 + d + j] = IF ty[j] = " " THEN "_" ELSE LowerChar(ty[j])
            /\ SubSeq(name, Len(name) - 3, Len(name)) = Mp4

Clip2MissedGoal ==
  <<"c", "l", "i", "p", "_", "2", "_", "m", "i", "s", "s", "e", "d", "_",
    "g", "o", "a", "l", ".", "m", "p", "4">>

\* C20 witness: the second event, a "Missed Goal" after a dropped event,
\* is cut to clip_2_missed_goal.mp4.
C20_Witness ==
  /\ Planned
  /\ llm.text = join(<<InstantLine, MissedLine>>, Newline)
  /\ cut.created_clips = <<Clip2MissedGoal>>

\* The messages with which pipeline.py itself reports the missing
\* credential, as an "Error: ..." status would carry them.
ConfigurationErrors ==
  {"Error: GEMINI_API_KEY environment variable not set.",
   "Error: Cannot proceed: GOOGLE_API_KEY not configured."}

\* C21: without the credential, event detection fails without a detector
\* call (no events, no external failure counted), no events.json is written
\* to the cache, and the task ends in an "Error: ..." status that reports
\* the configuration error.
C21_MissingCredential ==
  \A t \in Tasks :
    (~gemini_api_key /\ "extract_events_with_llm" \in hist[t].invoked)
      => /\ "extract_events_with_llm" \in hist[t].failed
         /\ hist[t].fault = 0 \/ hist[t].failed # {"extract_events_with_llm"}
         /\ fs[HashDir(video[t])].events = "absent"
         /\ pc[t] = "done" => status[t].status \in ConfigurationErrors

\* C22: check_file_integrity is true exactly for a file that exists, is not
\* zero-byte and, if a .json, parses; and every stage a run treats as a
\* cache hit had its files pass check_file_integrity at that check.
C22_IntegrityConsulted ==
  /\ \A st \in FileStates, isJson \in BOOLEAN :
       check_file_integrity(st, isJson)
         <=> (Exists(st) /\ st # "empty" /\ (isJson => st = "ok"))
  /\ \A t \in Tasks : hist[t].hit \subseteq hist[t].valid

\* C24: whenever status.json holds "Complete" with a summary_filename, a
\* complete summary.mp4, produced by a stitch_clips that did not fail, is at
\* the summary path run_pipeline returned.
C24_CompleteHasSummary ==
  \A t \in Tasks :
    (IsComplete(t) /\ "summary_filename" \in DOMAIN status[t])
      => /\ Returned(t)
         /\ results[t].summary_path = <<HashDir(video[t]), status[t].summary_filename>>
         /\ fs[results[t].summary_path[1]].summary = "ok"
         /\ \A u \in Tasks :
              (video[u] = video[t] /\ "stitch_clips" \in hist[u].failed)
                => fs[HashDir(video[u])].summary # "ok"

\* Both timestamps of the event convert.
Parseable(event) ==
  /\ TimeParts(event.start_timestamp) # << >>
  /\ TimeParts(event.end_timestamp) # << >>

\* The calls whose clip path is in the list returned.
Yielded ==
  {k \in 1..Len(cut.calls) :
     \E j \in 1..Len(cut.created_clips) :
       cut.created_clips[j] = cut.calls[k].clip_filename}

\* C27: when create_clips_from_events has returned, it has returned a
\* list; an event with a timestamp that does not convert has no transcoder
\* call and no clip path; every event of positive span has its call; the
\* calls without a clip path are exactly as many as the cuts that failed;
\* and the paths returned are those of the other calls, in event order.
C27_FailuresIsolated ==
  Planned
    => /\ cut.i = Len(cut.events)
       /\ \A n \in 1..Len(cut.events) :
            ~Parseable(cut.events[n])
              => /\ \A k \in 1..Len(cut.calls) : cut.calls[k].index # n
                 /\ \A j \in 1..Len(cut.created_clips) :
                      cut.created_clips[j] # clip_filename(n - 1, cut.events[n].event_type)
       /\ \A n \in 1..Len(cut.events) :
            PositiveSpan(cut.events[n])
              => \E k \in 1..Len(cut.calls) : cut.calls[k].index = n
       /\ Cardinality((1..Len(cut.calls)) \ Yielded) = cut.faults
       /\ Len(cut.created_clips) = Cardinality(Yielded)
       /\ \A a, b \in 1..Len(cut.created_clips) :
            a < b => PositionOf(cut.created_clips[a]) < PositionOf(cut.created_clips[b])

\* C27 witness: the first of two events has a start ("soon") that does
\* not convert and is passed over; the second is cut, and the list returned
\* holds its clip alone.
C27_Witness ==
  /\ Planned
  /\ llm.text = join(<<SoonLine, GoalLine>>, Newline)
  /\ Len(cut.events) = 2
  /\ ~Parseable(cut.events[1])
  /\ Len(cut.calls) = 1
  /\ cut.calls[1].index = 2
  /\ Len(cut.created_clips) = 1
  /\ PositionOf(cut.created_clips[1]) = 2

\* The worker that takes the step (every step of a worker passes Sched).
Writer == sched'.cur

\* C26: a step changes status.json of the stepping worker's task only, and
\* files only in that task's directory and in the cache directory of its
\* video's hash; so the status, the task directory and the cache entry of
\* every task with another hash are left as they were.
C26_Frame ==
  [][IF Writer \notin Tasks
     THEN fs' = fs /\ status' = status
     ELSE /\ \A u \in Tasks : status'[u] # status[u] => u = Writer
          /\ \A d \in Dirs :
               fs'[d] # fs[d] => d \in {TaskDir(Writer), HashDir(video[Writer])}
          /\ \A u \in Tasks :
               video[u] # video[Writer]
                 => /\ status'[u] = status[u]
                    /\ fs'[TaskDir(u)] = fs[TaskDir(u)]
                    /\ fs'[HashDir(video[u])] = fs[HashDir(video[u])]]_vars

\* C26 witness: two tasks with different hashes have run side by side (one
\* preempted the other) and both are Complete, each with the summary in the
\* cache directory of its own hash.
C26_Witness ==
  \E t, u \in Tasks :
    /\ video[t] # video[u]
    /\ ~hist[t].solo \/ sched.switches > 0
    /\ pc[t] = "done" /\ pc[u] = "done"
    /\ IsComplete(t) /\ IsComplete(u)
    /\ fs[HashDir(video[t])].summary = "ok"
    /\ fs[HashDir(video[u])].summary = "ok"
    /\ results[t].summary_path[1] = HashDir(video[t])
    /\ results[u].summary_path[1] = HashDir(video[u])

\* The stage functions in the order the claim gives them, and for each the
\* texts of templates/app.py that describe it and that report its failure.
StageOrder ==
  <<"extract_audio", "transcribe_audio", "format_transcript_with_timestamps",
    "extract_events_with_llm", "create_clips_from_events", "stitch_clips">>

Describes(text, fn) ==
  CASE fn = "extract_audio" -> text = "Extracting audio..."
    [] fn = "transcribe_audio" -> text = "Transcribing audio (using 'small' model)..."
    [] fn = "format_transcript_with_timestamps" -> text = "Formatting transcript for analysis..."
    [] fn = "extract_events_with_llm" -> text = "Identifying key events with AI..."
    [] fn = "create_clips_from_events" -> text = "Creating highlight clips..."
    [] fn = "stitch_clips" -> text = "Stitching final summary..."

ReportsFailure(text, fn) ==
  CASE fn = "extract_audio" -> text = "Error: Audio extraction failed."
    [] fn = "transcribe_audio" -> text = "Error: Transcription failed."
    [] fn = "format_transcript_with_timestamps" -> text = "Error: Failed to format transcript."
    [] fn = "extract_events_with_llm" -> text = "Error: AI event extraction failed."
    [] fn = "create_clips_from_events" -> text = "Error: Clip creation failed."
    [] fn = "stitch_clips" -> text = "Error: Video stitching failed."

\* The functions before position k of the order.
Before(k) == {StageOrder[j] : j \in 1..(k - 1)}

\* The worker of the non-caching orchestrator has returned.
TplReturned(t) == pc[t] = "t_done"

\* C23: in the non-caching orchestrator a stage function is invoked only
\* after all those before it in the fixed order, and with the status that
\* describes its stage already written; once a stage function has reported
\* failure the status is its "Error: ..." text, the run has returned and no
\* later stage function is ever invoked; and an empty clip list gives the
\* "Complete: ..." status and the return, without stitch_clips.
C23_FixedOrder ==
  /\ [][\A t \in Tasks : \A k \in 1..Len(StageOrder) :
          (StageOrder[k] \in hist'[t].invoked /\ StageOrder[k] \notin hist[t].invoked)
            => /\ hist[t].invoked = Before(k)
               /\ status[t] # NoFile
               /\ Describes(status[t].status, StageOrder[k])]_vars
  /\ [](\A t \in Tasks :
          /\ hist[t].afterFail = {}
          /\ \A k \in 1..Len(StageOrder) :
               StageOrder[k] \in hist[t].failed
                 => /\ TplReturned(t)
                    /\ ReportsFailure(status[t].status, StageOrder[k])
                    /\ hist[t].invoked = Before(k + 1)
          /\ hist[t].zero
               => /\ TplReturned(t)
                  /\ status[t] = update_status(
                       "Complete: No highlight events were found to create a summary.", None)
                  /\ "stitch_clips" \notin hist[t].invoked)

\* C23 witness: one task has gone through the six stage functions to
\* "Complete" with its summary; another has returned after its
\* transcription failed, its status the transcription error.
C23_Witness ==
  \E t, u \in Tasks :
    /\ TplReturned(t) /\ TplReturned(u)
    /\ hist[t].invoked = Before(Len(StageOrder) + 1)
    /\ hist[t].failed = {}
    /\ status[t] = update_status("Complete", <<TaskDir(t), "summary.mp4">>)
    /\ hist[u].failed = {"transcribe_audio"}
    /\ hist[u].invoked = {"extract_audio", "transcribe_audio"}
    /\ status[u].status = "Error: Transcription failed."

\* The statuses that end a task: "Complete", with or without its text, and
\* the "Error: ..." texts of either application.
TerminalTexts ==
  {"Complete", "Complete: No highlight events were found to create a summary."}
    \cup ErrorTexts
    \cup {"Error: Audio extraction failed.", "Error: Transcription failed.",
          "Error: Failed to format transcript.", "Error: AI event extraction failed.",
          "Error: Clip creation failed.", "Error: Video stitching failed."}

TerminalStatus(t) == status[t] # NoFile /\ status[t].status \in TerminalTexts

\* C25: once status.json of a task holds a terminal status, no step writes
\* it again and no step invokes a stage function for that task.
C25_TerminalStable ==
  [][\A t \in Tasks :
       TerminalStatus(t)
         => /\ status'[t] = status[t]
            /\ hist'[t].invoked = hist[t].invoked
            /\ pc'[t] = pc[t]]_vars

\* C25 witness: a task of the caching application has ended with an
\* "Error: ..." status and its worker is gone, while the worker of another
\* task, the last to step, is still running its stages.
C25_Witness ==
  \E t, u \in Tasks :
    /\ t # u
    /\ pc[t] = "done" /\ IsError(t)
    /\ sched.cur = u
    /\ pc[u] \in {"s2_check", "s3_check", "s4_check", "s5_check"}
    /\ hist[u].invoked # {}

====
